---------------------------- MODULE Spec2Model ----------------------------
(***************************************************************************)
(* Conflated market state of the trading desktop backend                   *)
(* (frontend/src-tauri/src/market/pipeline.rs and market/types.rs).        *)
(*                                                                         *)
(* Prices and quantities are f64 in the source; they are modelled as       *)
(* integers (price units, quantity lots), so sums and comparisons are      *)
(* exact.  Option<T> is modelled as a sequence: <<>> is None and <<x>> is  *)
(* Some(x).  Instant values are modelled by the operation counter nops.    *)
(***************************************************************************)
EXTENDS Integers, Sequences, FiniteSets, TLC

VARIABLES
    state,            \* ConflatedMarketState, shared under the state mutex
    op,               \* name of the operation that ran last
    arg,              \* argument of the operation that ran last (of a rejected
                      \* trade only the id, the one field the gate reads)
    ret,              \* value returned by the operation that ran last, as an
                      \* Option: None when it returned nothing
    nops,             \* number of operations so far; also the Instant clock
    frame_trades,     \* history: eligible trades applied since the last drain/snapshot
    eligible_total,   \* history: sum of the quantities of all eligible applied trades
    emitted_total,    \* history: sum of the tick volumes of all drained frames
    emitted_t,        \* history: open times of the candle and of the delta candle
                      \* that the frames drained so far carried last
    resynced,         \* history: the id a snapshot set when no trade was applied
                      \* since, and the ids the snapshots so far skipped
    delta_origin,     \* history: "none", "trade" or "history": what made last_delta_candle
    bucket_trades,    \* history: trades applied to last_delta_candle since it was made
    applied_since_drain, \* history: a trade was applied since the last drain
    frame_first_ingest, \* history: ingest instant of the first trade applied since
                      \* the last drain
    producer,         \* position of the producer: "streaming" or "resync"
    history,          \* position of the one-shot history loader: "pending" or "done"
    telemetry,        \* MarketTelemetryAtomics, as its snapshot() reads it
    session,          \* run_market_stream: the producer's position and locals, the
                      \* cancellation token, the throttle and the spawned tasks
    ewma,             \* ClockSyncEwma, the smoother local to the clock-sync task
    app,              \* AppState and the commands in flight: the market_stream
                      \* slot, the status store, the session tasks, the callers
    pager,            \* fetch_klines_history_bundle_with_progress: its position
                      \* and locals
    stream            \* one run_market_stream with the tasks it spawns and the
                      \* status store it writes

vars == <<state, op, arg, ret, nops, frame_trades, eligible_total,
          emitted_total, emitted_t, resynced, delta_origin, bucket_trades, applied_since_drain,
          frame_first_ingest, producer, history, telemetry, session,
          ewma, app, pager, stream>>

\* The variables of the conflated state and of its history, untouched by the
\* telemetry and clock-sync steps.
market_vars == <<state, nops, frame_trades, eligible_total, emitted_total, emitted_t, resynced,
                 delta_origin, bucket_trades, applied_since_drain,
                 frame_first_ingest, producer, history, session, app,
                 pager, stream>>

\* What a run of the paginator leaves alone.
non_pager_vars == <<state, nops, frame_trades, eligible_total, emitted_total, emitted_t, resynced,
                    delta_origin, bucket_trades, applied_since_drain,
                    frame_first_ingest, producer, history, session, app,
                    telemetry, ewma, stream>>

---------------------------------------------------------------------------
(* Bounds of the model and program constants *)

MaxOps == 3
\* The most market operations of a run of SpecLong.
MaxLongOps == 6
MaxId == 3
MaxAttempt == 2
MaxUpdates == 2
MaxTarget == 5
\* Stands for BINANCE_MAX_KLINES_PER_REQUEST, which is 1000 in binance.rs:
\* the most rows one request asks for.
MaxPage == 2
MaxStreams == 2
MaxCallers == 2

M1_duration_ms == 60000
STATUS_ERROR_THROTTLE_MS == 500
DEFAULT_MIN_NOTIONAL_USDT == 100
DEFAULT_EMIT_INTERVAL_MS == 16
DEFAULT_CLOCK_SYNC_INTERVAL_MS == 30000
DEFAULT_HISTORY_LIMIT == 5000
MIN_EMIT_INTERVAL_MS == 8
MAX_EMIT_INTERVAL_MS == 1000
MIN_CLOCK_SYNC_INTERVAL_MS == 5000
MAX_CLOCK_SYNC_INTERVAL_MS == 300000
MIN_HISTORY_LIMIT == 50
MAX_HISTORY_LIMIT == 10000
CLOCK_SYNC_MIN_DELAY_MS == 10000
CLOCK_SYNC_MAX_DELAY_MS == 90000

\* i64::MAX, i64::MIN and u64::MAX.  The checker's integers have 32 bits, so
\* the 64-bit ranges of the source are modelled by the ranges below, chosen
\* so that the sum and the difference of two i64 values can be computed
\* before they are clamped.
I64_MAX == 1073741823
I64_MIN == -I64_MAX - 1
U64_MAX == 2147483647
U32_MAX == 2147483647

AggIds == 0..MaxId
PriceQuantities == {<<20, 1>>, <<100, 1>>, <<101, 2>>}
Prices == {pq[1] : pq \in PriceQuantities}
TradeTimes == {60010, 60100, 120050}
NowUnixMs == {60050}

---------------------------------------------------------------------------
(* Option<T> *)

None == <<>>
Some(x) == <<x>>
IsSome(o) == o /= <<>>
IsNone(o) == o = <<>>
Unwrap(o) == o[1]

Max(a, b) == IF a >= b THEN a ELSE b
Min(a, b) == IF a <= b THEN a ELSE b

RECURSIVE SumSeq(_)
SumSeq(s) == IF s = <<>> THEN 0 ELSE Head(s) + SumSeq(Tail(s))

---------------------------------------------------------------------------
(* market/types.rs *)

direction_from_is_buyer_maker(is_buyer_maker) ==
    IF is_buyer_maker THEN -1 ELSE 1

direction(trade) == direction_from_is_buyer_maker(trade.is_buyer_maker)

notional(trade) == trade.price * trade.quantity

UiCandle_from_trade(bucket_open_time, price, quantity) ==
    [t |-> bucket_open_time, o |-> price, h |-> price, l |-> price,
     c |-> price, v |-> quantity]

\* Variant: the high is overwritten by the trade price instead of raised.
UiCandle_apply_trade_overwrite_high(self, price, quantity) ==
    [self EXCEPT !.h = price,
                 !.l = Min(self.l, price),
                 !.c = price,
                 !.v = self.v + quantity]

\* Variant: the volume is overwritten by the trade quantity instead of summed.
UiCandle_apply_trade_last_volume(self, price, quantity) ==
    [self EXCEPT !.h = Max(self.h, price),
                 !.l = Min(self.l, price),
                 !.c = price,
                 !.v = quantity]

UiCandle_apply_trade(self, price, quantity) ==
    [self EXCEPT !.h = Max(self.h, price),
                 !.l = Min(self.l, price),
                 !.c = price,
                 !.v = self.v + quantity]

UiDeltaCandle_from_signed_volume(bucket_open_time, signed_volume, absolute_volume) ==
    [t |-> bucket_open_time, o |-> 0, h |-> Max(0, signed_volume),
     l |-> Min(0, signed_volume), c |-> signed_volume,
     v |-> Max(absolute_volume, 0)]

\* Variant: high and low follow the single signed volume, not the running close.
UiDeltaCandle_apply_signed_volume_step_extremes(self, signed_volume, absolute_volume) ==
    [self EXCEPT !.c = self.c + signed_volume,
                 !.h = Max(self.h, signed_volume),
                 !.l = Min(self.l, signed_volume),
                 !.v = self.v + Max(absolute_volume, 0)]

UiDeltaCandle_apply_signed_volume(self, signed_volume, absolute_volume) ==
    LET c == self.c + signed_volume IN
    [self EXCEPT !.c = c,
                 !.h = Max(self.h, c),
                 !.l = Min(self.l, c),
                 !.v = self.v + Max(absolute_volume, 0)]

---------------------------------------------------------------------------
(* market/pipeline.rs: operations on ConflatedMarketState *)

ConflatedMarketState_default ==
    [last_agg_id |-> None, last_price |-> None, last_latency_ms |-> None,
     pending_price |-> None, pending_volume |-> 0, pending_direction |-> 0,
     pending_time |-> 0, pending_ingest_started_at |-> None,
     last_candle |-> None, pending_candle |-> None,
     last_delta_candle |-> None, pending_delta_candle |-> None]

candle_bucket_open_time(timestamp_ms, timeframe_ms) ==
    IF timeframe_ms <= 0 THEN timestamp_ms
    ELSE timestamp_ms - (timestamp_ms % timeframe_ms)

\* Variant: no guard for a strictly older bucket, which then opens a candle.
update_candle_from_trade_no_older_guard(st, trade, timeframe_ms) ==
    LET bucket_open == candle_bucket_open_time(trade.trade_time, timeframe_ms) IN
    IF IsSome(st.last_candle) /\ bucket_open = Unwrap(st.last_candle).t
    THEN LET current == UiCandle_apply_trade(Unwrap(st.last_candle),
                                             trade.price, trade.quantity) IN
         [st EXCEPT !.last_candle = Some(current),
                    !.pending_candle = Some(current)]
    ELSE LET next == UiCandle_from_trade(bucket_open, trade.price, trade.quantity) IN
         [st EXCEPT !.pending_candle = Some(next),
                    !.last_candle = Some(next)]

update_candle_from_trade(st, trade, timeframe_ms) ==
    LET bucket_open == candle_bucket_open_time(trade.trade_time, timeframe_ms) IN
    IF IsSome(st.last_candle) /\ bucket_open < Unwrap(st.last_candle).t
    THEN st
    ELSE IF IsSome(st.last_candle) /\ bucket_open = Unwrap(st.last_candle).t
    THEN LET current == UiCandle_apply_trade(Unwrap(st.last_candle),
                                             trade.price, trade.quantity) IN
         [st EXCEPT !.last_candle = Some(current),
                    !.pending_candle = Some(current)]
    ELSE LET next == UiCandle_from_trade(bucket_open, trade.price, trade.quantity) IN
         [st EXCEPT !.pending_candle = Some(next),
                    !.last_candle = Some(next)]

update_delta_candle_from_trade(st, trade, timeframe_ms) ==
    LET bucket_open == candle_bucket_open_time(trade.trade_time, timeframe_ms)
        signed_volume == trade.quantity * direction(trade)
        absolute_volume == trade.quantity
    IN
    IF IsSome(st.last_delta_candle) /\ bucket_open < Unwrap(st.last_delta_candle).t
    THEN st
    ELSE IF IsSome(st.last_delta_candle) /\ bucket_open = Unwrap(st.last_delta_candle).t
    THEN LET current == UiDeltaCandle_apply_signed_volume(
                            Unwrap(st.last_delta_candle), signed_volume, absolute_volume) IN
         [st EXCEPT !.last_delta_candle = Some(current),
                    !.pending_delta_candle = Some(current)]
    ELSE LET next == UiDeltaCandle_from_signed_volume(
                         bucket_open, signed_volume, absolute_volume) IN
         [st EXCEPT !.pending_delta_candle = Some(next),
                    !.last_delta_candle = Some(next)]

\* Variant: the pending time only moves forward.
accumulate_pending_tick_max_time(st, trade, min_notional_usdt) ==
    IF notional(trade) >= min_notional_usdt
    THEN [st EXCEPT !.pending_price = Some(trade.price),
                    !.pending_volume = st.pending_volume + trade.quantity,
                    !.pending_direction = direction(trade),
                    !.pending_time = Max(st.pending_time, trade.trade_time)]
    ELSE st

\* Variant: no notional filter, every applied trade is accumulated.
accumulate_pending_tick_no_filter(st, trade, min_notional_usdt) ==
    [st EXCEPT !.pending_price = Some(trade.price),
               !.pending_volume = st.pending_volume + trade.quantity,
               !.pending_direction = direction(trade),
               !.pending_time = trade.trade_time]

\* The accumulation into the pending tick (pipeline.rs:370-378).
accumulate_pending_tick(st, trade, min_notional_usdt) ==
    IF notional(trade) >= min_notional_usdt
    THEN [st EXCEPT !.pending_price = Some(trade.price),
                    !.pending_volume = st.pending_volume + trade.quantity,
                    !.pending_direction = direction(trade),
                    !.pending_time = trade.trade_time]
    ELSE st

\* Variant: only stale ids are rejected, a gap passes the gate.
sequence_gate_stale_only(st, trade) ==
    IF IsSome(st.last_agg_id) /\ trade.aggregate_trade_id <= Unwrap(st.last_agg_id)
    THEN Some([kind |-> "Stale", current |-> trade.aggregate_trade_id,
               last |-> Unwrap(st.last_agg_id)])
    ELSE None

\* The sequence gate (pipeline.rs:346-361): the outcome that rejects the
\* trade, or None when the trade passes.
sequence_gate(st, trade) ==
    IF IsSome(st.last_agg_id)
    THEN LET last_agg_id == Unwrap(st.last_agg_id)
             expected == last_agg_id + 1
         IN
         IF trade.aggregate_trade_id <= last_agg_id
         THEN Some([kind |-> "Stale", current |-> trade.aggregate_trade_id,
                    last |-> last_agg_id])
         ELSE IF trade.aggregate_trade_id /= expected
         THEN Some([kind |-> "GapDetected", expected |-> expected,
                    found |-> trade.aggregate_trade_id])
         ELSE None
    ELSE None

apply_trade_event(st, trade, min_notional_usdt, timeframe_ms, now_unix_ms, ingest_started_at) ==
    LET gate == sequence_gate(st, trade) IN
    IF IsSome(gate)
    THEN [state |-> st, outcome |-> Unwrap(gate)]
    ELSE
      LET s1 == [st EXCEPT !.last_agg_id = Some(trade.aggregate_trade_id),
                           !.last_price = Some(trade.price),
                           !.last_latency_ms =
                               Some(Max(now_unix_ms - trade.event_time, 0))]
          s2 == update_candle_from_trade(s1, trade, timeframe_ms)
          s3 == update_delta_candle_from_trade(s2, trade, timeframe_ms)
          s4 == [s3 EXCEPT !.pending_ingest_started_at = Some(ingest_started_at)]
      IN [state |-> accumulate_pending_tick(s4, trade, min_notional_usdt),
          outcome |-> [kind |-> "Applied",
                       eligible_for_ui |-> notional(trade) >= min_notional_usdt]]

\* Variant: the pending tick accumulator is not cleared.
apply_snapshot_keeps_pending_tick(st, aggregate_trade_id, price) ==
    [st EXCEPT !.last_agg_id = Some(aggregate_trade_id),
               !.last_price = Some(price)]

\* Variant: the price held before the snapshot is left as the pending price.
apply_snapshot_pending_from_previous_price(st, aggregate_trade_id, price) ==
    [st EXCEPT !.last_agg_id = Some(aggregate_trade_id),
               !.last_price = Some(price),
               !.pending_price = st.last_price,
               !.pending_volume = 0,
               !.pending_direction = 0,
               !.pending_time = 0,
               !.pending_ingest_started_at = None]

apply_snapshot(st, aggregate_trade_id, price) ==
    [st EXCEPT !.last_agg_id = Some(aggregate_trade_id),
               !.last_price = Some(price),
               !.pending_price = None,
               !.pending_volume = 0,
               !.pending_direction = 0,
               !.pending_time = 0,
               !.pending_ingest_started_at = None]

\* Variant: the pending direction is not reset.
drain_ui_tick_keeps_direction(st) ==
    IF IsNone(st.pending_price)
    THEN [state |-> st, tick |-> None]
    ELSE [state |-> [st EXCEPT !.pending_price = None,
                               !.pending_volume = 0,
                               !.pending_time = 0],
          tick |-> Some([t |-> st.pending_time, p |-> Unwrap(st.pending_price),
                         v |-> st.pending_volume, d |-> st.pending_direction])]

\* Variant: the tick is read but not taken.
drain_ui_tick_not_consuming(st) ==
    IF IsNone(st.pending_price)
    THEN [state |-> st, tick |-> None]
    ELSE [state |-> st,
          tick |-> Some([t |-> st.pending_time, p |-> Unwrap(st.pending_price),
                         v |-> st.pending_volume, d |-> st.pending_direction])]

drain_ui_tick(st) ==
    IF IsNone(st.pending_price)
    THEN [state |-> st, tick |-> None]
    ELSE [state |-> [st EXCEPT !.pending_price = None,
                               !.pending_volume = 0,
                               !.pending_direction = 0,
                               !.pending_time = 0],
          tick |-> Some([t |-> st.pending_time, p |-> Unwrap(st.pending_price),
                         v |-> st.pending_volume, d |-> st.pending_direction])]

drain_ui_candle(st) ==
    [state |-> [st EXCEPT !.pending_candle = None], candle |-> st.pending_candle]

drain_ui_delta_candle(st) ==
    [state |-> [st EXCEPT !.pending_delta_candle = None],
     delta_candle |-> st.pending_delta_candle]

\* Variant: only the tick decides whether a frame is returned.
drain_market_frame_tick_only(st, emitted_at) ==
    LET r1 == drain_ui_tick(st)
        r2 == drain_ui_candle(r1.state)
        r3 == drain_ui_delta_candle(r2.state)
    IN
    IF IsNone(r1.tick)
    THEN [state |-> r3.state, frame |-> None]
    ELSE [state |-> [r3.state EXCEPT !.pending_ingest_started_at = None],
          frame |-> Some(
              [tick |-> r1.tick, candle |-> r2.candle,
               delta_candle |-> r3.delta_candle,
               local_pipeline_latency_ms |->
                   IF IsSome(r3.state.pending_ingest_started_at)
                   THEN Some(Max(emitted_at
                                 - Unwrap(r3.state.pending_ingest_started_at), 0))
                   ELSE None])]

drain_market_frame(st, emitted_at) ==
    LET r1 == drain_ui_tick(st)
        r2 == drain_ui_candle(r1.state)
        r3 == drain_ui_delta_candle(r2.state)
    IN
    IF IsNone(r1.tick) /\ IsNone(r2.candle) /\ IsNone(r3.delta_candle)
    THEN [state |-> r3.state, frame |-> None]
    ELSE [state |-> [r3.state EXCEPT !.pending_ingest_started_at = None],
          frame |-> Some(
              [tick |-> r1.tick, candle |-> r2.candle,
               delta_candle |-> r3.delta_candle,
               local_pipeline_latency_ms |->
                   IF IsSome(r3.state.pending_ingest_started_at)
                   THEN Some(Max(emitted_at
                                 - Unwrap(r3.state.pending_ingest_started_at), 0))
                   ELSE None])]

\* Variant: the replaced candle leaves the last price alone.
apply_history_snapshot_keeps_price(st, candles) ==
    IF candles = <<>> THEN st
    ELSE LET last_candle == candles[Len(candles)]
             should_replace == IF IsSome(st.last_candle)
                               THEN last_candle.t >= Unwrap(st.last_candle).t
                               ELSE TRUE
         IN IF should_replace
            THEN [st EXCEPT !.last_candle = Some(last_candle)]
            ELSE st

\* Variant: the last fetched candle replaces whatever candle is held.
apply_history_snapshot_always_replace(st, candles) ==
    IF candles = <<>> THEN st
    ELSE LET last_candle == candles[Len(candles)]
         IN [st EXCEPT !.last_candle = Some(last_candle),
                       !.last_price = Some(last_candle.c)]

apply_history_snapshot(st, candles) ==
    IF candles = <<>> THEN st
    ELSE LET last_candle == candles[Len(candles)]
             should_replace == IF IsSome(st.last_candle)
                               THEN last_candle.t >= Unwrap(st.last_candle).t
                               ELSE TRUE
         IN IF should_replace
            THEN [st EXCEPT !.last_candle = Some(last_candle),
                            !.last_price = Some(last_candle.c)]
            ELSE st

apply_delta_history_snapshot(st, candles) ==
    IF candles = <<>> THEN st
    ELSE LET last_candle == candles[Len(candles)]
             should_replace == IF IsSome(st.last_delta_candle)
                               THEN last_candle.t >= Unwrap(st.last_delta_candle).t
                               ELSE TRUE
         IN IF should_replace
            THEN [st EXCEPT !.last_delta_candle = Some(last_candle)]
            ELSE st

---------------------------------------------------------------------------
(* market/pipeline.rs: telemetry and clock-sync helpers *)

clamp(x, lo, hi) == IF x < lo THEN lo ELSE IF x > hi THEN hi ELSE x

i64_saturating_add(a, b) == clamp(a + b, I64_MIN, I64_MAX)

u64_saturating_mul(a, k) == IF a > U64_MAX \div k THEN U64_MAX ELSE a * k

signed_time_delta_ms(lhs_ms, rhs_ms) == clamp(lhs_ms - rhs_ms, I64_MIN, I64_MAX)

i64_saturating_sub(a, b) == clamp(a - b, I64_MIN, I64_MAX)

i64_saturating_mul(a, k) ==
    IF a > 0 /\ a > I64_MAX \div k THEN I64_MAX
    ELSE IF a < 0 /\ -a > I64_MAX \div k THEN I64_MIN
    ELSE a * k

\* The / of two i64 values: the quotient is truncated toward zero.
i64_div(a, b) == IF a >= 0 THEN a \div b ELSE -((-a) \div b)

ClockSyncEwma_default == [initialized |-> FALSE, value_ms |-> 0]

\* Variant: the quotient is rounded down instead of toward zero.
ClockSyncEwma_update_floor_division(self, sample_ms, rtt_ms) ==
    IF ~self.initialized
    THEN [self |-> [initialized |-> TRUE, value_ms |-> sample_ms],
          ret |-> sample_ms]
    ELSE LET alpha_permille == IF rtt_ms <= 80 THEN 280
                               ELSE IF rtt_ms <= 180 THEN 200
                               ELSE IF rtt_ms <= 350 THEN 130
                               ELSE 90
             delta == i64_saturating_sub(sample_ms, self.value_ms)
             bounded_delta == clamp(delta, -300, 300)
             value_ms == i64_saturating_add(self.value_ms,
                             i64_saturating_mul(bounded_delta, alpha_permille)
                                 \div 1000)
         IN [self |-> [self EXCEPT !.value_ms = value_ms], ret |-> value_ms]

\* ClockSyncEwma::update: the new smoother and the value returned.
ClockSyncEwma_update(self, sample_ms, rtt_ms) ==
    IF ~self.initialized
    THEN [self |-> [initialized |-> TRUE, value_ms |-> sample_ms],
          ret |-> sample_ms]
    ELSE LET alpha_permille == IF rtt_ms <= 80 THEN 280
                               ELSE IF rtt_ms <= 180 THEN 200
                               ELSE IF rtt_ms <= 350 THEN 130
                               ELSE 90
             delta == i64_saturating_sub(sample_ms, self.value_ms)
             bounded_delta == clamp(delta, -300, 300)
             value_ms == i64_saturating_add(self.value_ms,
                             i64_div(i64_saturating_mul(bounded_delta,
                                                        alpha_permille), 1000))
         IN [self |-> [self EXCEPT !.value_ms = value_ms], ret |-> value_ms]

\* Variant: the cap is applied to the base, before the jitter is added.
reconnect_delay_cap_before_jitter(attempt, now_ms) ==
    LET exponent == Min(attempt, 6)
        base_ms == u64_saturating_mul(200, 2^exponent)
        jitter_ms == Min((IF now_ms < 0 THEN -now_ms ELSE now_ms) % 250, 249)
    IN Min(base_ms, 5000) + jitter_ms

\* reconnect_delay, in milliseconds; now_ms is what now_unix_ms() returns
\* inside it.
reconnect_delay(attempt, now_ms) ==
    LET exponent == Min(attempt, 6)
        base_ms == u64_saturating_mul(200, 2^exponent)
        jitter_ms == Min((IF now_ms < 0 THEN -now_ms ELSE now_ms) % 250, 249)
    IN Min(base_ms + jitter_ms, 5000)

\* Variant: the adjusted latency is not clamped at zero.
adjusted_network_latency_ms_unclamped(raw_exchange_latency_ms, clock_offset_ms) ==
    IF IsSome(clock_offset_ms)
    THEN i64_saturating_add(raw_exchange_latency_ms, Unwrap(clock_offset_ms))
    ELSE raw_exchange_latency_ms

adjusted_network_latency_ms(raw_exchange_latency_ms, clock_offset_ms) ==
    LET adjusted == IF IsSome(clock_offset_ms)
                    THEN i64_saturating_add(raw_exchange_latency_ms,
                                            Unwrap(clock_offset_ms))
                    ELSE raw_exchange_latency_ms
    IN Max(adjusted, 0)

\* Variant: the stable and the medium tiers compare with < instead of <=.
next_clock_sync_delay_ms_strict_tiers(base_interval_ms, rtt_ms, residual_offset_ms) ==
    LET base == Max(base_interval_ms, CLOCK_SYNC_MIN_DELAY_MS)
        stable == rtt_ms < 120 /\ residual_offset_ms < 20
        delay == IF stable THEN u64_saturating_mul(base, 2)
                 ELSE IF rtt_ms < 250 /\ residual_offset_ms < 50
                 THEN u64_saturating_mul(base, 3) \div 2
                 ELSE base
    IN clamp(delay, CLOCK_SYNC_MIN_DELAY_MS, CLOCK_SYNC_MAX_DELAY_MS)

next_clock_sync_delay_ms(base_interval_ms, rtt_ms, residual_offset_ms) ==
    LET base == Max(base_interval_ms, CLOCK_SYNC_MIN_DELAY_MS)
        stable == rtt_ms <= 120 /\ residual_offset_ms <= 20
        delay == IF stable THEN u64_saturating_mul(base, 2)
                 ELSE IF rtt_ms <= 250 /\ residual_offset_ms <= 50
                 THEN u64_saturating_mul(base, 3) \div 2
                 ELSE base
    IN clamp(delay, CLOCK_SYNC_MIN_DELAY_MS, CLOCK_SYNC_MAX_DELAY_MS)

set_last_agg_id(t, aggregate_trade_id) ==
    [t EXCEPT !.last_agg_id = Some(aggregate_trade_id)]

set_network_latencies(t, raw_exchange_latency_ms, clock_offset_ms, adjusted) ==
    [t EXCEPT !.raw_exchange_latency_ms = Some(raw_exchange_latency_ms),
              !.clock_offset_ms = IF IsSome(clock_offset_ms) THEN clock_offset_ms
                                  ELSE t.clock_offset_ms,
              !.adjusted_network_latency_ms = Some(adjusted),
              !.latency_ms = Some(adjusted)]

set_clock_offset_ms(t, clock_offset_ms) ==
    [t EXCEPT !.clock_offset_ms = Some(clock_offset_ms)]

\* MarketTelemetryAtomics::default(): every has_* flag is false, which
\* snapshot() reads as None.
MarketTelemetryAtomics_default ==
    [last_agg_id |-> None, latency_ms |-> None,
     raw_exchange_latency_ms |-> None, clock_offset_ms |-> None,
     adjusted_network_latency_ms |-> None]

---------------------------------------------------------------------------
(* market/types.rs: StartMarketStreamArgs::normalize *)

\* A String is modelled as the sequence of its chars, a char as a string
\* that names it.  An f64 argument is modelled as a record: class is
\* "finite", "nan", "inf" or "neg_inf", and v is its value when finite.
DEFAULT_SYMBOL == <<"B", "T", "C", "U", "S", "D", "T">>

\* char::is_whitespace, on the chars of the model
is_whitespace(ch) == ch \in {" ", "tab"}

\* char::is_ascii_alphanumeric, on the chars of the model
is_ascii_alphanumeric(ch) ==
    ch \in {"b", "t", "c", "B", "T", "C", "U", "S", "D", "1"}

\* char::to_ascii_uppercase: ASCII lower-case letters are mapped, every
\* other char is left as it is.
to_ascii_uppercase(ch) ==
    CASE ch = "b" -> "B"
      [] ch = "t" -> "T"
      [] ch = "c" -> "C"
      [] OTHER -> ch

RECURSIVE trim_start(_)
trim_start(str) ==
    IF str /= <<>> /\ is_whitespace(Head(str)) THEN trim_start(Tail(str))
    ELSE str

RECURSIVE trim_end(_)
trim_end(str) ==
    IF str /= <<>> /\ is_whitespace(str[Len(str)])
    THEN trim_end(SubSeq(str, 1, Len(str) - 1))
    ELSE str

\* str::trim
trim(str) == trim_end(trim_start(str))

InvalidArgument == [kind |-> "Err", error |-> "InvalidArgument"]

\* normalize_symbol (types.rs:203-211)
normalize_symbol(symbol) ==
    LET trimmed == trim(symbol)
        normalized == [i \in 1..Len(trimmed) |-> to_ascii_uppercase(trimmed[i])]
    IN IF normalized = <<>>
          \/ \E i \in 1..Len(normalized) : ~is_ascii_alphanumeric(normalized[i])
       THEN InvalidArgument
       ELSE [kind |-> "Ok", value |-> normalized]

\* Option::unwrap_or
unwrap_or(o, default) == IF IsSome(o) THEN Unwrap(o) ELSE default

\* f64::is_finite
is_finite(x) == x.class = "finite"

\* x < 0.0 on f64: false for NaN and for +inf
f64_negative(x) == x.class = "neg_inf" \/ (x.class = "finite" /\ x.v < 0)

\* Variant: the upper end of the emit interval range is not checked.
StartMarketStreamArgs_normalize_open_range(self) ==
    LET symbol == normalize_symbol(unwrap_or(self.symbol, DEFAULT_SYMBOL))
        min_notional_usdt ==
            unwrap_or(self.min_notional_usdt,
                      [class |-> "finite", v |-> DEFAULT_MIN_NOTIONAL_USDT])
        emit_interval_ms == unwrap_or(self.emit_interval_ms, DEFAULT_EMIT_INTERVAL_MS)
        clock_sync_interval_ms ==
            unwrap_or(self.clock_sync_interval_ms, DEFAULT_CLOCK_SYNC_INTERVAL_MS)
        history_limit == unwrap_or(self.history_limit, DEFAULT_HISTORY_LIMIT)
    IN IF symbol.kind = "Err" THEN InvalidArgument
       ELSE IF ~is_finite(min_notional_usdt) \/ f64_negative(min_notional_usdt)
       THEN InvalidArgument
       ELSE IF ~(MIN_EMIT_INTERVAL_MS <= emit_interval_ms)
       THEN InvalidArgument
       ELSE IF ~(MIN_CLOCK_SYNC_INTERVAL_MS <= clock_sync_interval_ms
                 /\ clock_sync_interval_ms <= MAX_CLOCK_SYNC_INTERVAL_MS)
       THEN InvalidArgument
       ELSE IF ~(MIN_HISTORY_LIMIT <= history_limit /\ history_limit <= MAX_HISTORY_LIMIT)
       THEN InvalidArgument
       ELSE [kind |-> "Ok",
             config |->
               [market_kind |-> unwrap_or(self.market_kind, "Spot"),
                symbol |-> symbol.value,
                min_notional_usdt |-> min_notional_usdt,
                emit_interval_ms |-> emit_interval_ms,
                mock_mode |-> unwrap_or(self.mock_mode, FALSE),
                emit_legacy_price_event |-> unwrap_or(self.emit_legacy_price_event, FALSE),
                emit_legacy_frame_events |-> unwrap_or(self.emit_legacy_frame_events, FALSE),
                perf_telemetry |-> unwrap_or(self.perf_telemetry, FALSE),
                clock_sync_interval_ms |-> clock_sync_interval_ms,
                timeframe |-> unwrap_or(self.timeframe, "M1"),
                startup_mode |-> unwrap_or(self.startup_mode, "LiveFirst"),
                history_limit |-> history_limit]]

\* StartMarketStreamArgs::normalize (types.rs:260-321)
StartMarketStreamArgs_normalize(self) ==
    LET symbol == normalize_symbol(unwrap_or(self.symbol, DEFAULT_SYMBOL))
        min_notional_usdt ==
            unwrap_or(self.min_notional_usdt,
                      [class |-> "finite", v |-> DEFAULT_MIN_NOTIONAL_USDT])
        emit_interval_ms == unwrap_or(self.emit_interval_ms, DEFAULT_EMIT_INTERVAL_MS)
        clock_sync_interval_ms ==
            unwrap_or(self.clock_sync_interval_ms, DEFAULT_CLOCK_SYNC_INTERVAL_MS)
        history_limit == unwrap_or(self.history_limit, DEFAULT_HISTORY_LIMIT)
    IN IF symbol.kind = "Err" THEN InvalidArgument
       ELSE IF ~is_finite(min_notional_usdt) \/ f64_negative(min_notional_usdt)
       THEN InvalidArgument
       ELSE IF ~(MIN_EMIT_INTERVAL_MS <= emit_interval_ms
                 /\ emit_interval_ms <= MAX_EMIT_INTERVAL_MS)
       THEN InvalidArgument
       ELSE IF ~(MIN_CLOCK_SYNC_INTERVAL_MS <= clock_sync_interval_ms
                 /\ clock_sync_interval_ms <= MAX_CLOCK_SYNC_INTERVAL_MS)
       THEN InvalidArgument
       ELSE IF ~(MIN_HISTORY_LIMIT <= history_limit /\ history_limit <= MAX_HISTORY_LIMIT)
       THEN InvalidArgument
       ELSE [kind |-> "Ok",
             config |->
               [market_kind |-> unwrap_or(self.market_kind, "Spot"),
                symbol |-> symbol.value,
                min_notional_usdt |-> min_notional_usdt,
                emit_interval_ms |-> emit_interval_ms,
                mock_mode |-> unwrap_or(self.mock_mode, FALSE),
                emit_legacy_price_event |-> unwrap_or(self.emit_legacy_price_event, FALSE),
                emit_legacy_frame_events |-> unwrap_or(self.emit_legacy_frame_events, FALSE),
                perf_telemetry |-> unwrap_or(self.perf_telemetry, FALSE),
                clock_sync_interval_ms |-> clock_sync_interval_ms,
                timeframe |-> unwrap_or(self.timeframe, "M1"),
                startup_mode |-> unwrap_or(self.startup_mode, "LiveFirst"),
                history_limit |-> history_limit]]

---------------------------------------------------------------------------
(* market/binance.rs: fetch_klines_history_bundle_with_progress *)

Reverse(s) == [i \in 1..Len(s) |-> s[Len(s) + 1 - i]]

\* Vec::truncate
Truncate(s, n) == IF Len(s) > n THEN SubSeq(s, 1, n) ELSE s

\* The locals before the loop.  A candle is held as its open time, the one
\* field the paginator reads.  target_limit is None when history_all is set.
Pager_default ==
    [pc |-> "idle", target_limit |-> None, candles_rev |-> <<>>,
     end_time |-> None, previous_oldest_open_time |-> None]

\* binance.rs:212-217
pager_request_limit(p) ==
    IF IsSome(p.target_limit)
    THEN Min(Max(Unwrap(p.target_limit) - Len(p.candles_rev), 0), MaxPage)
    ELSE MaxPage

\* binance.rs:283-308: after the loop the rows are truncated to the target
\* and reversed.
pager_finish(p, candles_rev) ==
    LET kept == IF IsSome(p.target_limit)
                THEN Truncate(candles_rev, Unwrap(p.target_limit))
                ELSE candles_rev
    IN [pager |-> [p EXCEPT !.pc = "done", !.candles_rev = kept],
        result |-> Some(Reverse(kept))]

\* binance.rs:236-280: one non-empty page is taken in, newest first, and the
\* loop goes on or stops.
\* Variant: the loop goes on when a page is not older than the one before.
pager_page_without_guard(p, page) ==
    LET request_limit == pager_request_limit(p)
        oldest_open_time == page[1]
        received == Len(page)
        candles_rev == p.candles_rev \o Reverse(page)
        stop == \/ IsSome(p.target_limit) /\ Len(candles_rev) >= Unwrap(p.target_limit)
                \/ received < request_limit
                \/ oldest_open_time <= 0
    IN IF stop THEN pager_finish(p, candles_rev)
       ELSE [pager |-> [p EXCEPT !.candles_rev = candles_rev,
                                 !.previous_oldest_open_time = Some(oldest_open_time),
                                 !.end_time = Some(oldest_open_time - 1)],
             result |-> None]

pager_page(p, page) ==
    LET request_limit == pager_request_limit(p)
        oldest_open_time == page[1]
        received == Len(page)
        candles_rev == p.candles_rev \o Reverse(page)
        stop == \/ IsSome(p.target_limit) /\ Len(candles_rev) >= Unwrap(p.target_limit)
                \/ received < request_limit
                \/ /\ IsSome(p.previous_oldest_open_time)
                   /\ oldest_open_time >= Unwrap(p.previous_oldest_open_time)
                \/ oldest_open_time <= 0
    IN IF stop THEN pager_finish(p, candles_rev)
       ELSE [pager |-> [p EXCEPT !.candles_rev = candles_rev,
                                 !.previous_oldest_open_time = Some(oldest_open_time),
                                 !.end_time = Some(oldest_open_time - 1)],
             result |-> None]

---------------------------------------------------------------------------
(* state.rs and commands/market_stream.rs: the application state *)

\* The session tasks that the commands may spawn and the command
\* invocations that may be in flight at once.
StreamIds == 1..MaxStreams
CallerIds == 1..MaxCallers

\* MarketStreamStatusSnapshot, by its connection state and by where its
\* telemetry fields come from: "none" when all are None (the snapshots that
\* the commands and a session without window write), "atomics" when
\* publish_status fills them from the telemetry atomics of a session.
stopped_snapshot == [state |-> "Stopped", telemetry |-> "none"]

error_snapshot == [state |-> "Error", telemetry |-> "none"]

status_snapshot(connection_state) ==
    [state |-> connection_state, telemetry |-> "atomics"]

\* current_operational_state (pipeline.rs:1094-1104), of the state read
current_operational_state(connection_state) ==
    IF connection_state \in {"Live", "Reconnecting", "Desynced"}
    THEN connection_state ELSE "Connecting"

\* A spawned run_market_stream as the commands see it: not yet spawned,
\* spawned ("start"), running, or returned ("done"), its token, and what it
\* published last: "none" before its first status, "Stopped", or "other".
Run_default == [pc |-> "unspawned", cancelled |-> FALSE, published |-> "none"]

\* A command invocation: idle, or a start or stop between two of its awaits.
Caller_default == [pc |-> "idle", existing_handle |-> None, join_handle |-> None]

\* AppState::new (state.rs:20-33), with the session tasks and the command
\* invocations.
AppState_default ==
    [market_stream |-> None,
     market_status |-> stopped_snapshot,
     runs |-> [id \in StreamIds |-> Run_default],
     callers |-> [c \in CallerIds |-> Caller_default]]

\* tauri::async_runtime::spawn of run_market_stream
\* (commands/market_stream.rs:37-39): the task with the least id not yet used.
fresh_run(a) == CHOOSE id \in StreamIds :
    /\ a.runs[id].pc = "unspawned"
    /\ \A other \in StreamIds : a.runs[other].pc = "unspawned" => id <= other

spawn_run(a, id) == [a EXCEPT !.runs[id].pc = "start"]

\* One run_market_stream with the tasks it spawns and the status store.  pc
\* is the supervisor's position: "start", "history_first" (awaiting the
\* inline load), "loop" (the producer runs), "join" (awaiting the tasks),
\* "done" (returned).  loader is the position of load_and_emit_history, inline
\* or spawned: "spawned", "fetching", "loaded", "loaded_delta_empty", "failed"
\* (LiveFirst, holding the state it read), "publishing" (holding the state it
\* read), "exited".  heartbeat is "publishing" between its read of the store
\* and its publish.  bootstrap tells which bootstrap events were emitted.
Stream_default ==
    [pc |-> "start", cancelled |-> FALSE, market_status |-> stopped_snapshot,
     consumer |-> "unspawned", heartbeat |-> "unspawned",
     clock |-> "unspawned", loader |-> "unspawned",
     heartbeat_read |-> None, loader_read |-> None, bootstrap |-> "none"]

\* publish_status (pipeline.rs:1397-1428): the snapshot is written to the
\* store and the status event is emitted.
stream_publish(st, connection_state) ==
    [st EXCEPT !.market_status = status_snapshot(connection_state)]

\* pipeline.rs:659-836: the consumer, heartbeat and clock-sync tasks are spawned.
stream_spawn_tasks(st) ==
    [st EXCEPT !.consumer = "running", !.heartbeat = "running",
               !.clock = "running"]

---------------------------------------------------------------------------
(* market/pipeline.rs: run_market_stream, the session *)

\* The locals of run_market_stream before its first statement.  pc is the
\* producer's position: "start", "history_first" (awaiting the inline history
\* load), "loop" (the while test of the reconnect loop), "connect" (awaiting
\* the dial), "read" (the select on cancellation and the next frame),
\* "resync" (the while test of resync_with_snapshot), "fetch" (awaiting the
\* snapshot), "resync_sleep", "backoff", "join" (awaiting the tasks),
\* "stopped", "no_window".  published is the connection state that the
\* producer (reconnect loop, handle_message, resync_with_snapshot and the
\* entry of run_market_stream) published last.
Session_default ==
    [pc |-> "start", cancelled |-> FALSE, startup_mode |-> "unset",
     reconnect_attempt |-> 0, attempt |-> 0, published |-> "None",
     throttle |-> [last_state |-> None, last_reason |-> None,
                   last_emit |-> None],
     consumer |-> "unspawned", heartbeat |-> "unspawned",
     clock |-> "unspawned", history_task |-> "unspawned"]

\* u32::saturating_add(1); the counter saturates at MaxAttempt in the model.
attempt_saturating_add(n) == IF n >= MaxAttempt THEN MaxAttempt ELSE n + 1

\* allow_status_publish (pipeline.rs:1430-1459): within_window says that the
\* last throttled emit was less than STATUS_ERROR_THROTTLE_MS ago.  The
\* caller that knows the time of the call stores it in last_emit when the
\* publish is allowed; the steps of a session, which go by within_window
\* alone, leave last_emit None.
\* Variant: the reason of the last throttled publish is not compared.
allow_status_publish_any_reason(throttle, status, reason, within_window) ==
    LET should_throttle == status \in {"Error", "Reconnecting"} IN
    IF /\ should_throttle
       /\ throttle.last_state = Some(status)
       /\ within_window
    THEN [allow |-> FALSE, throttle |-> throttle]
    ELSE [allow |-> TRUE,
          throttle |-> [throttle EXCEPT !.last_state = Some(status),
                                        !.last_reason = Some(reason)]]

allow_status_publish(throttle, status, reason, within_window) ==
    LET should_throttle == status \in {"Error", "Reconnecting"} IN
    IF /\ should_throttle
       /\ throttle.last_state = Some(status)
       /\ throttle.last_reason = Some(reason)
       /\ within_window
    THEN [allow |-> FALSE, throttle |-> throttle]
    ELSE [allow |-> TRUE,
          throttle |-> [throttle EXCEPT !.last_state = Some(status),
                                        !.last_reason = Some(reason)]]

\* publish_status, as far as the producer's own sequence of states goes.
publish_status(sess, status) == [sess EXCEPT !.published = status]

publish_status_throttled(sess, status, reason, within_window) ==
    LET r == allow_status_publish(sess.throttle, status, reason, within_window) IN
    IF r.allow
    THEN [publish_status(sess, status) EXCEPT !.throttle = r.throttle]
    ELSE sess

\* pipeline.rs:984: the reconnect loop is left; the token is cancelled and the
\* tasks are awaited.
enter_join(sess) == [sess EXCEPT !.pc = "join", !.cancelled = TRUE]

\* pipeline.rs:957-981: what follows the end of one connection.
\* Variant: a connection that ended without a reconnect request ends the loop.
after_connection_ends_session(sess, immediate_reconnect) ==
    IF sess.cancelled THEN enter_join(sess)
    ELSE IF immediate_reconnect
    THEN [sess EXCEPT !.reconnect_attempt = 0, !.pc = "loop"]
    ELSE enter_join(sess)

after_connection(sess, immediate_reconnect) ==
    IF sess.cancelled THEN enter_join(sess)
    ELSE IF immediate_reconnect
    THEN [sess EXCEPT !.reconnect_attempt = 0, !.pc = "loop"]
    ELSE [sess EXCEPT !.reconnect_attempt = attempt_saturating_add(sess.reconnect_attempt),
                      !.pc = "backoff"]

\* pipeline.rs:659-836: the consumer, heartbeat and clock-sync tasks are spawned.
spawn_tasks(sess) ==
    [sess EXCEPT !.consumer = "running", !.heartbeat = "running",
                 !.clock = "running"]

---------------------------------------------------------------------------
(* Inputs *)

\* tests::sample_trade (pipeline.rs:1582-1597): event_time = trade_time.
Trades ==
    { [event_time |-> tt, aggregate_trade_id |-> id, price |-> pq[1],
       quantity |-> pq[2], trade_time |-> tt, is_buyer_maker |-> m] :
      id \in AggIds, pq \in PriceQuantities, tt \in TradeTimes,
      m \in BOOLEAN }

\* binance.rs kline_to_domain_pair: a kline row gives an OHLCV candle and a
\* signed-delta candle with the same open time.
kline_to_domain_pair(kline) ==
    LET signed_delta == kline.taker_buy_volume
                        - (kline.volume - kline.taker_buy_volume) IN
    [candle |-> [t |-> kline.open_time, o |-> kline.open, h |-> kline.high,
                 l |-> kline.low, c |-> kline.close, v |-> kline.volume],
     delta_candle |-> [t |-> kline.open_time, o |-> 0,
                       h |-> Max(signed_delta, 0), l |-> Min(signed_delta, 0),
                       c |-> signed_delta, v |-> kline.volume]]

Klines ==
    { [open_time |-> ot, open |-> 100, high |-> 101, low |-> 99, close |-> cl,
       volume |-> 2, taker_buy_volume |-> tb] :
      ot \in {60000, 120000}, cl \in {99}, tb \in {0, 2} }

\* What a history fetch returns: no row, one row, or two rows in ascending
\* open time.
KlineSeries ==
    {<<>>} \cup {<<k>> : k \in Klines}
           \cup {<<k1, k2>> : k1 \in {k \in Klines : k.open_time = 60000},
                               k2 \in {k \in Klines : k.open_time = 120000}}

\* The frames of a session: one eligible trade per aggregate trade id.
SessionTrades ==
    { [event_time |-> 60010, aggregate_trade_id |-> id, price |-> 100,
       quantity |-> 1, trade_time |-> 60010, is_buyer_maker |-> FALSE] :
      id \in AggIds }

\* Event times of the trades whose latency is measured at now_unix_ms = 60050:
\* raw latencies -600, -80, 0, 50 and the two ends of the i64 range.
EventTimes == {60650, 60130, 60050, 60000, I64_MIN, I64_MAX}

\* Smoothed clock offsets (server minus local) stored by the clock-sync task.
ClockOffsets == {I64_MIN, -100, 10, 650, I64_MAX}

\* Arguments of next_clock_sync_delay_ms: the configured base interval, the
\* round trip of the best probe and the residual |offset - smoothed offset|.
BaseIntervals == {0, 10000, 10001, 30000, 45000, 60000, 90001, U64_MAX}
Rtts == {0, 90, 120, 121, 250, 251, 400}
Residuals == {0, 10, 20, 21, 50, 51, 120}

\* Arguments of ClockSyncEwma::update: the offset of the best probe and its
\* round trip, on both sides of every tier.
Samples == {I64_MIN, -1000, -3, 0, 3, 4, 299, 300, 301, 1000, I64_MAX}
EwmaRtts == {0, 80, 81, 180, 181, 350, 351}

\* Offsets of the probes of a clock that stays put: far from each other, and
\* no two as near as the smoother's smallest step can reach.
SteadySamples == {-1000, -40, 0, 20, 400}

\* Arguments of start_market_stream.  The numbers sit on both sides of each
\* range end; the fields that normalize passes through vary together.
ArgSymbols ==
    {None, Some(<<>>), Some(<<" ">>), Some(<<"b", "t", "c">>),
     Some(<<" ", "b", "1", "tab">>), Some(<<"b", "-", "1">>),
     Some(<<"b", " ", "1">>), Some(<<"e_acute">>), Some(<<"B", "T", "C">>)}

ArgNotionals ==
    {None, Some([class |-> "finite", v |-> -1]), Some([class |-> "finite", v |-> 0]),
     Some([class |-> "finite", v |-> 50]), Some([class |-> "nan", v |-> 0]),
     Some([class |-> "inf", v |-> 0]), Some([class |-> "neg_inf", v |-> 0])}

ArgEmitIntervals == {None, Some(0), Some(7), Some(8), Some(1000), Some(1001)}

ArgClockSyncIntervals ==
    {None, Some(4999), Some(5000), Some(300000), Some(300001)}

ArgHistoryLimits == {None, Some(0), Some(49), Some(50), Some(10000), Some(10001)}

ArgPassThrough ==
    {[market_kind |-> None, mock_mode |-> None, emit_legacy_price_event |-> None,
      emit_legacy_frame_events |-> None, perf_telemetry |-> None,
      timeframe |-> None, startup_mode |-> None],
     [market_kind |-> Some("FuturesUsdm"), mock_mode |-> Some(TRUE),
      emit_legacy_price_event |-> Some(TRUE),
      emit_legacy_frame_events |-> Some(TRUE), perf_telemetry |-> Some(TRUE),
      timeframe |-> Some("H1"), startup_mode |-> Some("HistoryFirst")],
     [market_kind |-> Some("Spot"), mock_mode |-> None,
      emit_legacy_price_event |-> Some(FALSE),
      emit_legacy_frame_events |-> None, perf_telemetry |-> Some(TRUE),
      timeframe |-> None, startup_mode |-> Some("LiveFirst")]}

\* Open times of the rows the exchange holds.
OpenTimes == {0, 60000, 120000, 180000, 240000}

\* The pages the exchange may return to a request for at most n rows: rows
\* in ascending open time, whatever endTime was asked for (an exchange may
\* ignore or clamp it).
Pages(n) ==
    {<<>>} \cup (IF n >= 1 THEN {<<t>> : t \in OpenTimes} ELSE {})
           \cup UNION { { q \in [1..k -> OpenTimes] :
                            \A i \in 1..(k - 1) : q[i] < q[i + 1] } :
                        k \in 2..n }

\* Arguments of publish_status_throttled and the readings of Instant::now(),
\* in milliseconds, on both sides of the throttle window.
ThrottleStates == {"Error", "Reconnecting", "Live", "Desynced"}
ThrottleReasons == {"websocket connect error", "websocket frame error"}
ThrottleInstants == {0, 1, 499, 500, 501, 999, 1000, 1001}

\* Arguments of reconnect_delay: the attempt counter, a u32, and the wall
\* clock that gives the jitter.
Attempts == 0..12 \cup {U32_MAX}
JitterClocks == {0, 1, 249, 250, 60050, 60249, 60499, I64_MAX}

---------------------------------------------------------------------------
(* Actions: one per operation on the shared state *)

Init ==
    /\ state = ConflatedMarketState_default
    /\ op = "init"
    /\ arg = None
    /\ ret = None
    /\ nops = 0
    /\ frame_trades = <<>>
    /\ eligible_total = 0
    /\ emitted_total = 0
    /\ emitted_t = [candle |-> None, delta_candle |-> None]
    /\ resynced = [last_agg_id |-> None, skipped |-> {}]
    /\ delta_origin = "none"
    /\ bucket_trades = <<>>
    /\ applied_since_drain = FALSE
    /\ frame_first_ingest = None
    /\ producer = "streaming"
    /\ history = "pending"
    /\ telemetry = MarketTelemetryAtomics_default
    /\ session = Session_default
    /\ ewma = ClockSyncEwma_default
    /\ app = AppState_default
    /\ pager = Pager_default
    /\ stream = Stream_default

DeltaT(st) == IF IsSome(st.last_delta_candle)
              THEN Some(Unwrap(st.last_delta_candle).t) ELSE None

\* handle_message (pipeline.rs:1279-1337): one trade of the set trades is
\* applied under the state lock; after an Applied outcome its id and its
\* latencies are stored in the telemetry.
ApplyTradeOf(trades) ==
    /\ nops < MaxOps
    /\ producer = "streaming"
    /\ \E trade \in trades, now_unix_ms \in NowUnixMs :
         LET r == apply_trade_event(state, trade, DEFAULT_MIN_NOTIONAL_USDT,
                                    M1_duration_ms, now_unix_ms, nops)
             applied == r.outcome.kind = "Applied"
             bucket == trade.trade_time - (trade.trade_time % M1_duration_ms)
         IN
         /\ state' = r.state
         /\ ret' = Some(r.outcome)
         /\ arg' = IF applied THEN Some(trade)
                    ELSE Some([aggregate_trade_id |-> trade.aggregate_trade_id])
         /\ applied_since_drain' = (applied \/ applied_since_drain)
         /\ producer' = IF r.outcome.kind = "GapDetected" THEN "resync"
                         ELSE "streaming"
         /\ frame_trades' = IF applied /\ r.outcome.eligible_for_ui
                             THEN Append(frame_trades, trade) ELSE frame_trades
         /\ eligible_total' = IF applied /\ r.outcome.eligible_for_ui
                               THEN eligible_total + trade.quantity
                               ELSE eligible_total
         /\ bucket_trades' =
                IF ~applied THEN bucket_trades
                ELSE IF DeltaT(r.state) /= DeltaT(state) THEN <<trade>>
                ELSE IF DeltaT(r.state) = Some(bucket)
                     THEN Append(bucket_trades, trade)
                ELSE bucket_trades
         /\ delta_origin' =
                IF applied /\ DeltaT(r.state) /= DeltaT(state) THEN "trade"
                ELSE delta_origin
         /\ frame_first_ingest' =
                IF applied /\ IsNone(frame_first_ingest) THEN Some(nops)
                ELSE frame_first_ingest
         /\ telemetry' =
                IF ~applied THEN telemetry
                ELSE LET raw_exchange_latency_ms ==
                             signed_time_delta_ms(now_unix_ms, trade.event_time)
                         clock_offset_ms == telemetry.clock_offset_ms
                     IN set_network_latencies(
                            set_last_agg_id(telemetry, trade.aggregate_trade_id),
                            raw_exchange_latency_ms, clock_offset_ms,
                            adjusted_network_latency_ms(raw_exchange_latency_ms,
                                                        clock_offset_ms))
    /\ op' = "apply_trade"
    /\ nops' = nops + 1
    /\ UNCHANGED <<ewma, app, pager, stream>>
    /\ UNCHANGED <<emitted_total, emitted_t, history>>
    /\ resynced' = IF state'.last_agg_id /= state.last_agg_id
                   THEN [resynced EXCEPT !.last_agg_id = None]
                   ELSE resynced

ApplyTrade == ApplyTradeOf(Trades) /\ UNCHANGED session

\* resync_with_snapshot (pipeline.rs:1355-1362): the REST snapshot is applied
\* under the state lock and its id is stored in the telemetry.
ApplySnapshotStep ==
    /\ nops < MaxOps
    /\ producer = "resync"
    /\ \E id \in AggIds, price \in Prices :
         /\ state' = apply_snapshot(state, id, price)
         /\ arg' = Some([aggregate_trade_id |-> id, price |-> price])
         /\ telemetry' = set_last_agg_id(telemetry, id)
    /\ op' = "apply_snapshot"
    /\ ret' = None
    /\ producer' = "streaming"
    /\ frame_trades' = <<>>
    /\ nops' = nops + 1
    /\ UNCHANGED <<ewma, app, pager, stream>>
    /\ resynced' =
           [last_agg_id |-> state'.last_agg_id,
            skipped |-> resynced.skipped \cup
                { id \in AggIds :
                    /\ IsSome(state.last_agg_id)
                    /\ Unwrap(state.last_agg_id) < id
                    /\ id <= Unwrap(state'.last_agg_id) }]
    /\ UNCHANGED <<eligible_total, emitted_total, emitted_t, delta_origin, bucket_trades,
                   applied_since_drain, frame_first_ingest, history>>

ApplySnapshot == ApplySnapshotStep /\ UNCHANGED session

\* Consumer task: one timer tick drains the state under the lock.
DrainFrameStep ==
    /\ nops < MaxOps
    /\ LET r == drain_market_frame(state, nops) IN
         /\ state' = r.state
         /\ ret' = r.frame
         /\ emitted_total' =
                IF IsSome(r.frame) /\ IsSome(Unwrap(r.frame).tick)
                THEN emitted_total + Unwrap(Unwrap(r.frame).tick).v
                ELSE emitted_total
         /\ emitted_t' =
                [candle |->
                    IF IsSome(r.frame) /\ IsSome(Unwrap(r.frame).candle)
                    THEN Some(Unwrap(Unwrap(r.frame).candle).t)
                    ELSE emitted_t.candle,
                 delta_candle |->
                    IF IsSome(r.frame) /\ IsSome(Unwrap(r.frame).delta_candle)
                    THEN Some(Unwrap(Unwrap(r.frame).delta_candle).t)
                    ELSE emitted_t.delta_candle]
    /\ op' = "drain_frame"
    /\ arg' = None
    /\ frame_trades' = <<>>
    /\ applied_since_drain' = FALSE
    /\ frame_first_ingest' = None
    /\ nops' = nops + 1
    /\ UNCHANGED <<ewma, app, pager, stream>>
    /\ UNCHANGED <<eligible_total, delta_origin, bucket_trades, producer, history>>
    /\ UNCHANGED <<telemetry, resynced>>

DrainFrame == DrainFrameStep /\ UNCHANGED session

\* load_and_emit_history: both fetched series are merged under one lock.
HistoryMergeStep ==
    /\ nops < MaxOps
    /\ history = "pending"
    /\ \E klines \in KlineSeries, delta_ok \in BOOLEAN :
         LET candles == [i \in DOMAIN klines |-> kline_to_domain_pair(klines[i]).candle]
             delta_candles ==
                 IF delta_ok
                 THEN [i \in DOMAIN klines |->
                          kline_to_domain_pair(klines[i]).delta_candle]
                 ELSE <<>>
             s1 == apply_history_snapshot(state, candles)
             s2 == apply_delta_history_snapshot(s1, delta_candles)
         IN
         /\ state' = s2
         /\ arg' = Some([candles |-> candles, delta_candles |-> delta_candles])
         /\ delta_origin' = IF s2.last_delta_candle /= state.last_delta_candle
                             THEN "history" ELSE delta_origin
         /\ bucket_trades' = IF s2.last_delta_candle /= state.last_delta_candle
                              THEN <<>> ELSE bucket_trades
    /\ op' = "history_merge"
    /\ ret' = None
    /\ history' = "done"
    /\ nops' = nops + 1
    /\ UNCHANGED <<ewma, app, pager, stream>>
    /\ UNCHANGED <<frame_trades, eligible_total, emitted_total, emitted_t, resynced,
                   applied_since_drain, frame_first_ingest, producer>>
    /\ UNCHANGED telemetry

HistoryMerge == HistoryMergeStep /\ UNCHANGED session

\* Clock-sync task (pipeline.rs:820-821): the smoothed offset is stored.
ClockOffsetUpdate ==
    /\ \E offset \in ClockOffsets :
         /\ telemetry' = set_clock_offset_ms(telemetry, offset)
         /\ arg' = Some([clock_offset_ms |-> offset])
    /\ op' = "set_clock_offset_ms"
    /\ ret' = None
    /\ UNCHANGED market_vars
    /\ UNCHANGED ewma

\* handle_message, Applied branch (pipeline.rs:1299-1312): the latencies of
\* the applied trade are stored in the telemetry.
NetworkLatencyUpdate ==
    /\ \E id \in AggIds, now_ms \in NowUnixMs, event_time \in EventTimes :
         LET raw_exchange_latency_ms == signed_time_delta_ms(now_ms, event_time)
             clock_offset_ms == telemetry.clock_offset_ms
             adjusted == adjusted_network_latency_ms(raw_exchange_latency_ms,
                                                     clock_offset_ms)
         IN
         /\ telemetry' = set_network_latencies(set_last_agg_id(telemetry, id),
                              raw_exchange_latency_ms, clock_offset_ms, adjusted)
         /\ arg' = Some([raw_exchange_latency_ms |-> raw_exchange_latency_ms,
                         clock_offset_ms |-> clock_offset_ms])
         /\ ret' = Some(adjusted)
    /\ op' = "adjusted_network_latency_ms"
    /\ UNCHANGED market_vars
    /\ UNCHANGED ewma

\* run_mock_producer (pipeline.rs:1234-1235): the mock stream stores zero
\* latencies.
MockLatencyUpdate ==
    /\ \E id \in AggIds :
         telemetry' = set_network_latencies(set_last_agg_id(telemetry, id),
                          0, telemetry.clock_offset_ms, 0)
    /\ op' = "mock_latency"
    /\ arg' = None
    /\ ret' = None
    /\ UNCHANGED market_vars
    /\ UNCHANGED ewma

\* Clock-sync task (pipeline.rs:822-826): the delay to the next probe.
ClockSyncDelay ==
    /\ \E base \in BaseIntervals, rtt \in Rtts, residual \in Residuals :
         /\ arg' = Some([base_interval_ms |-> base, rtt_ms |-> rtt,
                         residual_offset_ms |-> residual])
         /\ ret' = Some(next_clock_sync_delay_ms(base, rtt, residual))
    /\ op' = "next_clock_sync_delay_ms"
    /\ UNCHANGED market_vars
    /\ UNCHANGED ewma
    /\ UNCHANGED telemetry

\* Clock-sync task (pipeline.rs:820): the probe's offset is fed to the
\* smoother.
EwmaUpdate ==
    /\ nops < MaxUpdates
    /\ \E sample \in Samples, rtt \in EwmaRtts :
         LET r == ClockSyncEwma_update(ewma, sample, rtt) IN
         /\ ewma' = r.self
         /\ arg' = Some([sample_ms |-> sample, rtt_ms |-> rtt])
         /\ ret' = Some(r.ret)
    /\ op' = "ClockSyncEwma_update"
    /\ nops' = nops + 1
    /\ UNCHANGED <<state, frame_trades, eligible_total, emitted_total, emitted_t, resynced,
                   delta_origin, bucket_trades, applied_since_drain,
                   frame_first_ingest, producer, history, session, app,
                   pager, stream>>
    /\ UNCHANGED telemetry

\* Clock-sync task (pipeline.rs:818-820): a probe whose offset is one of the
\* steady samples.
EwmaProbe ==
    /\ nops < MaxUpdates
    /\ \E sample \in SteadySamples, rtt \in EwmaRtts :
         LET r == ClockSyncEwma_update(ewma, sample, rtt) IN
         /\ ewma' = r.self
         /\ arg' = Some([sample_ms |-> sample, rtt_ms |-> rtt])
         /\ ret' = Some(r.ret)
    /\ op' = "ClockSyncEwma_update"
    /\ nops' = nops + 1
    /\ UNCHANGED <<state, frame_trades, eligible_total, emitted_total, emitted_t, resynced,
                   delta_origin, bucket_trades, applied_since_drain,
                   frame_first_ingest, producer, history, session, app,
                   pager, stream>>
    /\ UNCHANGED telemetry

\* Clock-sync task (pipeline.rs:818-820): the next probe returns the offset
\* and the round trip of the probe before it.  The smoother stops moving
\* after finitely many of these, which bounds the run.
EwmaRepeat ==
    /\ op \in {"ClockSyncEwma_update", "ClockSyncEwma_update_repeated"}
    /\ LET r == ClockSyncEwma_update(ewma, Unwrap(arg).sample_ms,
                                     Unwrap(arg).rtt_ms) IN
         /\ ewma' = r.self
         /\ ret' = Some(r.ret)
    /\ op' = "ClockSyncEwma_update_repeated"
    /\ UNCHANGED <<arg, nops>>
    /\ UNCHANGED <<state, frame_trades, eligible_total, emitted_total, emitted_t, resynced,
                   delta_origin, bucket_trades, applied_since_drain,
                   frame_first_ingest, producer, history, session, app,
                   pager, stream>>
    /\ UNCHANGED telemetry

\* The backoff of the reconnect loop and of the resync
\* (pipeline.rs:977, 1385): the delay of the next sleep.
ReconnectDelay ==
    /\ \E attempt \in Attempts, now_ms \in JitterClocks :
         /\ arg' = Some([attempt |-> attempt, now_unix_ms |-> now_ms])
         /\ ret' = Some(reconnect_delay(attempt, now_ms))
    /\ op' = "reconnect_delay"
    /\ UNCHANGED market_vars
    /\ UNCHANGED <<telemetry, ewma>>

\* publish_status_throttled called at a known instant
\* (pipeline.rs:1430-1480): the window of the throttle is measured from
\* last_emit, which an allowed publish sets to now.  Instant::now() does not
\* go back.
StatusThrottled ==
    /\ \E status \in ThrottleStates, reason \in ThrottleReasons,
          now \in ThrottleInstants :
         LET throttle == session.throttle
             within_window ==
                 /\ IsSome(throttle.last_emit)
                 /\ now - Unwrap(throttle.last_emit) < STATUS_ERROR_THROTTLE_MS
             allow == allow_status_publish(throttle, status, reason,
                                           within_window).allow
             published == publish_status_throttled(session, status, reason,
                                                   within_window)
         IN /\ IsSome(throttle.last_emit) => now >= Unwrap(throttle.last_emit)
            /\ session' = IF allow
                          THEN [published EXCEPT !.throttle.last_emit = Some(now)]
                          ELSE published
            /\ arg' = Some([state |-> status, reason |-> reason, now |-> now])
            /\ ret' = Some([allow |-> allow])
    /\ op' = "publish_status_throttled"
    /\ UNCHANGED <<state, nops, frame_trades, eligible_total, emitted_total, emitted_t, resynced,
                   delta_origin, bucket_trades, applied_since_drain,
                   frame_first_ingest, producer, history, telemetry, ewma,
                   app, pager, stream>>

\* start_market_stream, its first statement (commands/market_stream.rs:20):
\* the arguments are normalized; an error is returned to the caller at once,
\* before the slot of the session is looked at.  A behaviour holds one call.
StartMarketStreamNormalize ==
    /\ op = "init"
    /\ \E symbol \in ArgSymbols, min_notional_usdt \in ArgNotionals,
          emit_interval_ms \in ArgEmitIntervals,
          clock_sync_interval_ms \in ArgClockSyncIntervals,
          history_limit \in ArgHistoryLimits, rest \in ArgPassThrough :
         LET args == [market_kind |-> rest.market_kind,
                      symbol |-> symbol,
                      min_notional_usdt |-> min_notional_usdt,
                      emit_interval_ms |-> emit_interval_ms,
                      mock_mode |-> rest.mock_mode,
                      emit_legacy_price_event |-> rest.emit_legacy_price_event,
                      emit_legacy_frame_events |-> rest.emit_legacy_frame_events,
                      perf_telemetry |-> rest.perf_telemetry,
                      clock_sync_interval_ms |-> clock_sync_interval_ms,
                      timeframe |-> rest.timeframe,
                      startup_mode |-> rest.startup_mode,
                      history_limit |-> history_limit]
         IN /\ arg' = Some(args)
            /\ ret' = Some(StartMarketStreamArgs_normalize(args))
    /\ op' = "StartMarketStreamArgs_normalize"
    /\ UNCHANGED market_vars
    /\ UNCHANGED <<telemetry, ewma>>

\* fetch_klines_history_bundle_with_progress, entry (binance.rs:188-209).
PagerStart ==
    /\ pager.pc = "idle"
    /\ \E limit \in 0..MaxTarget, history_all \in BOOLEAN, oldest_known \in BOOLEAN :
         /\ arg' = Some([limit |-> limit, history_all |-> history_all])
         /\ IF ~history_all /\ limit = 0
            THEN /\ pager' = [pager EXCEPT !.pc = "done"]
                 /\ ret' = Some(<<>>)
            ELSE IF history_all /\ ~oldest_known
            THEN \* fetch_oldest_kline_open_time failed (binance.rs:205)
                 /\ pager' = [pager EXCEPT !.pc = "failed"]
                 /\ ret' = None
            ELSE /\ pager' = [pager EXCEPT
                                 !.pc = "loop",
                                 !.target_limit = IF history_all THEN None
                                                  ELSE Some(limit)]
                 /\ ret' = None
    /\ op' = "fetch_klines_history_bundle"
    /\ UNCHANGED non_pager_vars

\* One pass of the loop (binance.rs:210-279): nothing is left to ask for, or
\* the exchange answers with a page.
PagerPage ==
    /\ pager.pc = "loop"
    /\ LET request_limit == pager_request_limit(pager) IN
       IF request_limit = 0
       THEN LET r == pager_finish(pager, pager.candles_rev) IN
            /\ pager' = r.pager
            /\ ret' = r.result
            /\ UNCHANGED arg
       ELSE \E page \in Pages(request_limit) :
              LET r == IF page = <<>>
                       THEN pager_finish(pager, pager.candles_rev)
                       ELSE pager_page(pager, page)
              IN /\ pager' = r.pager
                 /\ ret' = r.result
                 /\ arg' = Some([request_limit |-> request_limit,
                                 end_time |-> pager.end_time, page |-> page])
    /\ op' = "klines_page"
    /\ UNCHANGED non_pager_vars

\* The request, the decoding of a page or the progress callback failed
\* (binance.rs:230-231, 243, 258): the function returns the error.
PagerError ==
    /\ pager.pc = "loop"
    /\ pager_request_limit(pager) > 0
    /\ pager' = [pager EXCEPT !.pc = "failed"]
    /\ op' = "klines_page"
    /\ arg' = Some([request_limit |-> pager_request_limit(pager),
                    end_time |-> pager.end_time, page |-> <<>>])
    /\ ret' = None
    /\ UNCHANGED non_pager_vars

---------------------------------------------------------------------------
(* Actions of the commands and of the session tasks as the commands see them *)

\* What the commands and the session tasks leave alone.
non_app_vars == <<state, nops, frame_trades, eligible_total, emitted_total, emitted_t, resynced,
                  delta_origin, bucket_trades, applied_since_drain,
                  frame_first_ingest, producer, history, session, telemetry,
                  ewma, pager, stream>>

\* A step that returns nothing to a caller of a command.
NoReturn == UNCHANGED <<op, arg, ret>> /\ UNCHANGED non_app_vars

\* start_market_stream with valid arguments, up to its first await that can
\* block (commands/market_stream.rs:20-39): the slot is taken; a handle found
\* there is cancelled and its join awaited; with an empty slot the new task
\* is spawned at once.
StartTake(c) ==
    /\ app.callers[c].pc = "idle"
    /\ Cardinality({id \in StreamIds : app.runs[id].pc = "unspawned"})
          > Cardinality({o \in CallerIds : app.callers[o].pc = "start_join"})
    /\ app' =
          IF IsSome(app.market_stream)
          THEN [app EXCEPT
                  !.market_stream = None,
                  !.runs[Unwrap(app.market_stream)].cancelled = TRUE,
                  !.callers[c] = [pc |-> "start_join",
                                  existing_handle |-> app.market_stream,
                                  join_handle |-> None]]
          ELSE LET id == fresh_run(app) IN
               [spawn_run(app, id) EXCEPT
                  !.callers[c] = [pc |-> "start_install",
                                  existing_handle |-> None,
                                  join_handle |-> Some(id)]]
    /\ NoReturn

\* start_market_stream: the join of the previous task completed
\* (commands/market_stream.rs:28-39); the new task is spawned.
\* Variant: the join of the previous task is not awaited.
StartSpawn_without_join(c) ==
    /\ app.callers[c].pc = "start_join"
    /\ app' = LET id == fresh_run(app) IN
              [spawn_run(app, id) EXCEPT
                  !.callers[c].pc = "start_install",
                  !.callers[c].join_handle = Some(id)]
    /\ NoReturn

StartSpawn(c) ==
    /\ app.callers[c].pc = "start_join"
    /\ app.runs[Unwrap(app.callers[c].existing_handle)].pc = "done"
    /\ app' = LET id == fresh_run(app) IN
              [spawn_run(app, id) EXCEPT
                  !.callers[c].pc = "start_install",
                  !.callers[c].join_handle = Some(id)]
    /\ NoReturn

\* start_market_stream: the handle of the new task is written to the slot,
\* over whatever it holds, and the command returns
\* (commands/market_stream.rs:41-49).
StartInstall(c) ==
    /\ app.callers[c].pc = "start_install"
    /\ app' = [app EXCEPT !.market_stream = app.callers[c].join_handle,
                          !.callers[c] = Caller_default]
    /\ op' = "start_market_stream"
    /\ arg' = None
    /\ ret' = Some([kind |-> "Ok"])
    /\ UNCHANGED non_app_vars

\* stop_market_stream up to its first await that can block
\* (commands/market_stream.rs:56-63): the slot is taken and a handle found
\* there is cancelled.
StopTake(c) ==
    /\ app.callers[c].pc = "idle"
    /\ app' =
          IF IsSome(app.market_stream)
          THEN [app EXCEPT
                  !.market_stream = None,
                  !.runs[Unwrap(app.market_stream)].cancelled = TRUE,
                  !.callers[c] = [pc |-> "stop_join",
                                  existing_handle |-> app.market_stream,
                                  join_handle |-> None]]
          ELSE [app EXCEPT
                  !.callers[c] = [pc |-> "stop_write",
                                  existing_handle |-> None,
                                  join_handle |-> None]]
    /\ NoReturn

\* stop_market_stream: the join of the taken task completed
\* (commands/market_stream.rs:63-64).
StopJoin(c) ==
    /\ app.callers[c].pc = "stop_join"
    /\ app.runs[Unwrap(app.callers[c].existing_handle)].pc = "done"
    /\ app' = [app EXCEPT !.callers[c].pc = "stop_write"]
    /\ NoReturn

\* stop_market_stream: the Stopped snapshot without telemetry is written to
\* the store and the command returns (commands/market_stream.rs:69-94).
StopWrite(c) ==
    /\ app.callers[c].pc = "stop_write"
    /\ app' = [app EXCEPT !.market_status = stopped_snapshot,
                          !.callers[c] = Caller_default]
    /\ op' = "stop_market_stream"
    /\ arg' = None
    /\ ret' = Some([kind |-> "Ok",
                    stopped |-> IsSome(app.callers[c].existing_handle)])
    /\ UNCHANGED non_app_vars

\* run_market_stream, entry (pipeline.rs:539-578, 604-613): without the main
\* window an Error snapshot is written and the task returns; otherwise
\* Connecting is published.
RunStart(id) ==
    /\ app.runs[id].pc = "start"
    /\ \E window \in BOOLEAN :
         app' = IF window
                THEN [app EXCEPT !.market_status = status_snapshot("Connecting"),
                                 !.runs[id].pc = "running",
                                 !.runs[id].published = "other"]
                ELSE [app EXCEPT !.market_status = error_snapshot,
                                 !.runs[id].pc = "done"]
    /\ NoReturn

\* A running session publishes a status (publish_status, pipeline.rs:1397-1428,
\* called by the producer, the loader, the consumer and the heartbeat); the
\* heartbeat and the loader publish the state they read from the store
\* before, which may be any.
RunPublish(id) ==
    /\ app.runs[id].pc = "running"
    /\ \E connection_state \in {"Connecting", "Reconnecting", "Live",
                                 "Desynced", "Error", "Stopped"} :
         app' = [app EXCEPT !.market_status = status_snapshot(connection_state),
                            !.runs[id].published =
                                IF connection_state = "Stopped"
                                THEN "Stopped" ELSE "other"]
    /\ NoReturn

\* Cancelled, the session joins its tasks, publishes Stopped and returns
\* (pipeline.rs:849-868, 984-1001).
RunReturn(id) ==
    /\ app.runs[id].pc = "running"
    /\ app.runs[id].cancelled
    /\ app' = [app EXCEPT !.market_status = status_snapshot("Stopped"),
                          !.runs[id].pc = "done",
                          !.runs[id].published = "Stopped"]
    /\ NoReturn

RunStep(id) == RunStart(id) \/ RunPublish(id) \/ RunReturn(id)

CommandStep(c) ==
    \/ StartTake(c) \/ StartSpawn(c) \/ StartInstall(c)
    \/ StopTake(c) \/ StopJoin(c) \/ StopWrite(c)

---------------------------------------------------------------------------
(* Actions of one session task and of the tasks it spawns *)

non_stream_vars == <<state, op, arg, ret, nops, frame_trades, eligible_total,
                     emitted_total, emitted_t, resynced, delta_origin, bucket_trades,
                     applied_since_drain, frame_first_ingest, producer,
                     history, session, telemetry, ewma, app, pager>>

\* run_market_stream, entry (pipeline.rs:539-657): without the main window an
\* Error snapshot is written and the task returns; otherwise Connecting is
\* published and, by the startup mode, the history is loaded inline or the
\* loader task is spawned together with the three tasks.
StreamStart ==
    /\ stream.pc = "start"
    /\ \E window \in BOOLEAN, mode \in {"HistoryFirst", "LiveFirst"} :
         stream' =
            IF ~window
            THEN [stream EXCEPT !.market_status = error_snapshot, !.pc = "done"]
            ELSE IF mode = "HistoryFirst"
            THEN [stream_publish(stream, "Connecting") EXCEPT
                     !.loader = "spawned", !.pc = "history_first"]
            ELSE [stream_spawn_tasks(stream_publish(stream, "Connecting")) EXCEPT
                     !.loader = "spawned", !.pc = "loop"]
    /\ UNCHANGED non_stream_vars

\* The loader starts (pipeline.rs:625-627, 1013-1015): cancelled, it returns
\* at once.
StreamLoaderBegin ==
    /\ stream.loader = "spawned"
    /\ stream' = [stream EXCEPT !.loader =
                     IF stream.cancelled THEN "exited" ELSE "fetching"]
    /\ UNCHANGED non_stream_vars

\* load_and_emit_history, the two fetches returned (pipeline.rs:1035-1054).
\* A failed OHLC fetch ends the load with an error: HistoryFirst publishes
\* Error (pipeline.rs:588-599), LiveFirst reads the state of the store
\* (pipeline.rs:640-643).  A failed delta fetch alone publishes Connecting
\* and leaves an empty delta series.
StreamLoaderFetched ==
    /\ stream.loader = "fetching"
    /\ \E candles_ok \in BOOLEAN, delta_ok \in BOOLEAN :
         stream' =
            IF ~candles_ok
            THEN IF stream.pc = "history_first"
                 THEN [stream_publish(stream, "Error") EXCEPT !.loader = "exited"]
                 ELSE [stream EXCEPT
                          !.loader = "failed",
                          !.loader_read = Some(stream.market_status.state)]
            ELSE IF ~delta_ok
            THEN [stream_publish(stream, "Connecting") EXCEPT
                     !.loader = "loaded_delta_empty"]
            ELSE [stream EXCEPT !.loader = "loaded"]
    /\ UNCHANGED non_stream_vars

\* LiveFirst, after a failed load (pipeline.rs:644-653): the state read is
\* published again, with the failure as its reason.
StreamLoaderFailedPublish ==
    /\ stream.loader = "failed"
    /\ stream' = [stream_publish(stream, Unwrap(stream.loader_read)) EXCEPT
                     !.loader = "exited", !.loader_read = None]
    /\ UNCHANGED non_stream_vars

\* load_and_emit_history after the fetches (pipeline.rs:1056-1079, 1094-1104):
\* cancelled, it returns; otherwise the series are merged, both bootstrap
\* events are emitted and the state of the store is read.
\* Variant: a failed delta fetch ends the load with nothing merged or emitted.
StreamLoaderMerge_needs_delta ==
    /\ stream.loader \in {"loaded", "loaded_delta_empty"}
    /\ stream' =
          IF stream.cancelled \/ stream.loader = "loaded_delta_empty"
          THEN [stream EXCEPT !.loader = "exited"]
          ELSE [stream EXCEPT
                   !.bootstrap = "both",
                   !.loader_read =
                       Some(current_operational_state(stream.market_status.state)),
                   !.loader = "publishing"]
    /\ UNCHANGED non_stream_vars

StreamLoaderMerge ==
    /\ stream.loader \in {"loaded", "loaded_delta_empty"}
    /\ stream' =
          IF stream.cancelled
          THEN [stream EXCEPT !.loader = "exited"]
          ELSE [stream EXCEPT
                   !.bootstrap = IF stream.loader = "loaded_delta_empty"
                                 THEN "both_delta_empty" ELSE "both",
                   !.loader_read =
                       Some(current_operational_state(stream.market_status.state)),
                   !.loader = "publishing"]
    /\ UNCHANGED non_stream_vars

\* load_and_emit_history, its last status (pipeline.rs:1080-1091).
StreamLoaderPublish ==
    /\ stream.loader = "publishing"
    /\ stream' = [stream_publish(stream, Unwrap(stream.loader_read)) EXCEPT
                     !.loader = "exited", !.loader_read = None]
    /\ UNCHANGED non_stream_vars

\* HistoryFirst: the inline load returned (pipeline.rs:600-602, 659-836); the
\* three tasks are spawned and the producer starts.
StreamHistoryFirstDone ==
    /\ stream.pc = "history_first"
    /\ stream.loader = "exited"
    /\ stream' = [stream_spawn_tasks(stream) EXCEPT !.pc = "loop"]
    /\ UNCHANGED non_stream_vars

\* The producer, mock or live (pipeline.rs:838-847, 882-982), by the
\* statuses it publishes.
StreamProducerPublish ==
    /\ stream.pc = "loop"
    /\ \E connection_state \in {"Connecting", "Reconnecting", "Live",
                                 "Desynced", "Error"} :
         stream' = stream_publish(stream, connection_state)
    /\ UNCHANGED non_stream_vars

\* The producer returns on cancellation (pipeline.rs:849, 984).
StreamProducerExit ==
    /\ stream.pc = "loop"
    /\ stream.cancelled
    /\ stream' = [stream EXCEPT !.pc = "join"]
    /\ UNCHANGED non_stream_vars

\* Consumer task, the tick branch (pipeline.rs:679-757): a frame update is
\* emitted; when the emit fails, Error is published.
StreamConsumerTick ==
    /\ stream.consumer = "running"
    /\ \E emit_ok \in BOOLEAN :
         stream' = IF emit_ok THEN stream ELSE stream_publish(stream, "Error")
    /\ UNCHANGED non_stream_vars

\* Consumer task, the cancellation branch (pipeline.rs:676-678).
StreamConsumerExit ==
    /\ stream.consumer = "running"
    /\ stream.cancelled
    /\ stream' = [stream EXCEPT !.consumer = "exited"]
    /\ UNCHANGED non_stream_vars

\* Heartbeat task, the tick branch (pipeline.rs:779-782): the state of the
\* store is read.
StreamHeartbeatRead ==
    /\ stream.heartbeat = "running"
    /\ stream' = [stream EXCEPT
                     !.heartbeat = "publishing",
                     !.heartbeat_read = Some(stream.market_status.state)]
    /\ UNCHANGED non_stream_vars

\* Heartbeat task (pipeline.rs:783-801): the state read is published with
\* the telemetry of now, and the perf event is emitted.
StreamHeartbeatPublish ==
    /\ stream.heartbeat = "publishing"
    /\ stream' = [stream_publish(stream, Unwrap(stream.heartbeat_read)) EXCEPT
                     !.heartbeat = "running", !.heartbeat_read = None]
    /\ UNCHANGED non_stream_vars

\* Heartbeat task, the cancellation branch (pipeline.rs:778).
StreamHeartbeatExit ==
    /\ stream.heartbeat = "running"
    /\ stream.cancelled
    /\ stream' = [stream EXCEPT !.heartbeat = "exited"]
    /\ UNCHANGED non_stream_vars

\* Clock-sync task, the sleep branch (pipeline.rs:818-833): it stores the
\* offset in the telemetry atomics and emits nothing.
StreamClockTick ==
    /\ stream.clock = "running"
    /\ UNCHANGED vars

\* Clock-sync task, the cancellation branch (pipeline.rs:817).
StreamClockExit ==
    /\ stream.clock = "running"
    /\ stream.cancelled
    /\ stream' = [stream EXCEPT !.clock = "exited"]
    /\ UNCHANGED non_stream_vars

\* The supervisor (pipeline.rs:849-868, 984-1001): the task handles have
\* completed, Stopped is published and run_market_stream returns.
\* Variant: the handle of the loader task is not awaited.
StreamJoin_without_loader ==
    /\ stream.pc = "join"
    /\ stream.consumer = "exited"
    /\ stream.heartbeat = "exited"
    /\ stream.clock = "exited"
    /\ stream' = [stream_publish(stream, "Stopped") EXCEPT !.pc = "done"]
    /\ UNCHANGED non_stream_vars

StreamJoin ==
    /\ stream.pc = "join"
    /\ stream.consumer = "exited"
    /\ stream.heartbeat = "exited"
    /\ stream.clock = "exited"
    /\ stream.loader \in {"unspawned", "exited"}
    /\ stream' = [stream_publish(stream, "Stopped") EXCEPT !.pc = "done"]
    /\ UNCHANGED non_stream_vars

\* stop_market_stream or a new start cancels the token of the session
\* (commands/market_stream.rs:27, 62).
StreamCancel ==
    /\ ~stream.cancelled
    /\ stream.pc /= "done"
    /\ stream' = [stream EXCEPT !.cancelled = TRUE]
    /\ UNCHANGED non_stream_vars

\* Every step of the session task and of the tasks it spawned.
StreamStep ==
    \/ StreamStart \/ StreamLoaderBegin \/ StreamLoaderFetched
    \/ StreamLoaderFailedPublish \/ StreamLoaderMerge
    \/ StreamLoaderPublish \/ StreamHistoryFirstDone
    \/ StreamProducerPublish \/ StreamProducerExit
    \/ StreamConsumerTick \/ StreamConsumerExit
    \/ StreamHeartbeatRead \/ StreamHeartbeatPublish \/ StreamHeartbeatExit
    \/ StreamClockTick \/ StreamClockExit
    \/ StreamJoin

---------------------------------------------------------------------------
(* Actions of a session: run_market_stream without mock mode *)

non_session_vars == <<state, op, arg, ret, nops, frame_trades, eligible_total,
                      emitted_total, emitted_t, resynced, delta_origin, bucket_trades,
                      applied_since_drain, frame_first_ingest, producer,
                      history, telemetry, ewma, app, pager, stream>>

\* run_market_stream, entry (pipeline.rs:539-657): without the main window
\* the session ends at once; otherwise Connecting is published and, by the
\* startup mode, the history is loaded inline or by a spawned task.
Start ==
    /\ session.pc = "start"
    /\ \E window \in BOOLEAN, mode \in {"HistoryFirst", "LiveFirst"} :
         session' =
            IF ~window THEN [session EXCEPT !.pc = "no_window"]
            ELSE IF mode = "HistoryFirst"
            THEN [publish_status(session, "Connecting") EXCEPT
                     !.startup_mode = mode, !.pc = "history_first"]
            ELSE [spawn_tasks(publish_status(session, "Connecting")) EXCEPT
                     !.startup_mode = mode, !.history_task = "running",
                     !.pc = "loop"]
    /\ UNCHANGED non_session_vars

\* HistoryFirst (pipeline.rs:579-600, 1056-1064): the inline load fetched both
\* series and, the session not being cancelled, merged them.
HistoryFirstMerged ==
    /\ session.pc = "history_first"
    /\ ~session.cancelled
    /\ HistoryMergeStep
    /\ session' = [spawn_tasks(session) EXCEPT !.pc = "loop"]

\* HistoryFirst: the inline load failed (an Error status of the supervisor)
\* or returned early on cancellation; nothing is merged.
HistoryFirstSkipped ==
    /\ session.pc = "history_first"
    /\ session' = [spawn_tasks(session) EXCEPT !.pc = "loop"]
    /\ UNCHANGED non_session_vars

\* LiveFirst (pipeline.rs:624-655): the spawned loader merged its series.
HistoryTaskMerged ==
    /\ session.history_task = "running"
    /\ ~session.cancelled
    /\ HistoryMergeStep
    /\ session' = [session EXCEPT !.history_task = "exited"]

\* LiveFirst: the spawned loader failed or saw the cancellation.
HistoryTaskSkipped ==
    /\ session.history_task = "running"
    /\ session' = [session EXCEPT !.history_task = "exited"]
    /\ UNCHANGED non_session_vars

\* The while test of the reconnect loop and the phase status (pipeline.rs:882-904).
\* Variant: the phase is Connecting whatever the attempt counter.
LoopHead_always_connecting ==
    /\ session.pc = "loop"
    /\ session' =
          IF session.cancelled THEN enter_join(session)
          ELSE [publish_status(session, "Connecting") EXCEPT !.pc = "connect"]
    /\ UNCHANGED non_session_vars

LoopHead ==
    /\ session.pc = "loop"
    /\ session' =
          IF session.cancelled THEN enter_join(session)
          ELSE [publish_status(session,
                               IF session.reconnect_attempt = 0
                               THEN "Connecting" ELSE "Reconnecting")
                EXCEPT !.pc = "connect"]
    /\ UNCHANGED non_session_vars

\* connect_agg_trade_stream returned Ok (pipeline.rs:907-920).
\* Variant: the attempt counter is kept.
ConnectOk_keeps_attempt ==
    /\ session.pc = "connect"
    /\ session' = [publish_status(session, "Live") EXCEPT !.pc = "read"]
    /\ UNCHANGED non_session_vars

ConnectOk ==
    /\ session.pc = "connect"
    /\ session' = [publish_status([session EXCEPT !.reconnect_attempt = 0], "Live")
                   EXCEPT !.pc = "read"]
    /\ UNCHANGED non_session_vars

\* connect_agg_trade_stream returned Err (pipeline.rs:966-977).
ConnectFail ==
    /\ session.pc = "connect"
    /\ \E within_window \in BOOLEAN :
         session' =
            LET s1 == publish_status_throttled(session, "Reconnecting",
                          "websocket connect error", within_window)
            IN [s1 EXCEPT !.reconnect_attempt =
                              attempt_saturating_add(s1.reconnect_attempt),
                          !.pc = "backoff"]
    /\ UNCHANGED non_session_vars

\* The backoff select (pipeline.rs:978-981), cancellation branch.
BackoffCancel ==
    /\ session.pc = "backoff"
    /\ session.cancelled
    /\ session' = enter_join(session)
    /\ UNCHANGED non_session_vars

\* The backoff select, sleep branch.
BackoffWake ==
    /\ session.pc = "backoff"
    /\ session' = [session EXCEPT !.pc = "loop"]
    /\ UNCHANGED non_session_vars

\* The read select (pipeline.rs:922-927), cancellation branch.
ReadCancel ==
    /\ session.pc = "read"
    /\ session.cancelled
    /\ session' = enter_join(session)
    /\ UNCHANGED non_session_vars

\* The stream ended: next() returned None (pipeline.rs:929-931).
StreamEnd ==
    /\ session.pc = "read"
    /\ session' = after_connection(session, FALSE)
    /\ UNCHANGED non_session_vars

\* A websocket frame error (pipeline.rs:945-953).
FrameError ==
    /\ session.pc = "read"
    /\ \E within_window \in BOOLEAN :
         session' = after_connection(
                        publish_status_throttled(session, "Reconnecting",
                            "websocket frame error", within_window),
                        FALSE)
    /\ UNCHANGED non_session_vars

\* handle_message, Close frame (pipeline.rs:1274).
FrameClose ==
    /\ session.pc = "read"
    /\ session' = after_connection(session, TRUE)
    /\ UNCHANGED non_session_vars

\* handle_message, Ping, Pong and raw frames (pipeline.rs:1275).
FrameIgnored ==
    /\ session.pc = "read"
    /\ UNCHANGED vars

\* handle_message, a text or binary payload that does not parse
\* (pipeline.rs:1245-1273).
\* Variant: the payload that does not parse ends the connection.
FrameParseError_ends_connection ==
    /\ session.pc = "read"
    /\ \E within_window \in BOOLEAN,
          reason \in {"failed to decode aggTrade payload",
                      "failed to decode binary aggTrade payload"} :
         session' = after_connection(
                       publish_status_throttled(session, "Error", reason,
                                                within_window), FALSE)
    /\ UNCHANGED non_session_vars

FrameParseError ==
    /\ session.pc = "read"
    /\ \E within_window \in BOOLEAN,
          reason \in {"failed to decode aggTrade payload",
                      "failed to decode binary aggTrade payload"} :
         session' = publish_status_throttled(session, "Error", reason,
                                             within_window)
    /\ UNCHANGED non_session_vars

\* handle_message, a trade (pipeline.rs:1279-1337): Applied and Stale keep
\* reading; GapDetected publishes Desynced and enters resync_with_snapshot.
\* Variant: a gap is published as an Error.
FrameTrade_gap_as_error ==
    /\ session.pc = "read"
    /\ ApplyTradeOf(SessionTrades)
    /\ session' =
          IF Unwrap(ret').kind = "GapDetected"
          THEN [publish_status(session, "Error") EXCEPT
                   !.pc = "resync", !.attempt = 0]
          ELSE session

FrameTrade ==
    /\ session.pc = "read"
    /\ ApplyTradeOf(SessionTrades)
    /\ session' =
          IF Unwrap(ret').kind = "GapDetected"
          THEN [publish_status(session, "Desynced") EXCEPT
                   !.pc = "resync", !.attempt = 0]
          ELSE session

\* resync_with_snapshot, the while test and the attempt status
\* (pipeline.rs:1342-1352); on cancellation it returns false, handle_message
\* returns Cancelled and the reconnect loop is left (pipeline.rs:940-959).
ResyncHead ==
    /\ session.pc = "resync"
    /\ session' =
          IF session.cancelled
          THEN enter_join([session EXCEPT !.reconnect_attempt = 0])
          ELSE [publish_status(session, "Reconnecting") EXCEPT !.pc = "fetch"]
    /\ UNCHANGED non_session_vars

\* The snapshot fetch returned Ok (pipeline.rs:1355-1375): the snapshot is
\* applied, Live is published and handle_message asks for an immediate
\* reconnect (pipeline.rs:1331-1332, 936-963).
FetchOk ==
    /\ session.pc = "fetch"
    /\ ApplySnapshotStep
    /\ session' = after_connection(publish_status(session, "Live"), TRUE)

\* The snapshot fetch returned Err (pipeline.rs:1376-1385).
FetchFail ==
    /\ session.pc = "fetch"
    /\ \E within_window \in BOOLEAN :
         session' =
            LET s1 == [session EXCEPT
                          !.attempt = attempt_saturating_add(session.attempt)]
            IN [publish_status_throttled(s1, "Reconnecting",
                    "snapshot resync failed", within_window)
                EXCEPT !.pc = "resync_sleep"]
    /\ UNCHANGED non_session_vars

\* The resync backoff select (pipeline.rs:1386-1389), cancellation branch:
\* resync_with_snapshot returns false.
ResyncSleepCancel ==
    /\ session.pc = "resync_sleep"
    /\ session.cancelled
    /\ session' = enter_join([session EXCEPT !.reconnect_attempt = 0])
    /\ UNCHANGED non_session_vars

\* The resync backoff select, sleep branch.
ResyncSleepWake ==
    /\ session.pc = "resync_sleep"
    /\ session' = [session EXCEPT !.pc = "resync"]
    /\ UNCHANGED non_session_vars

\* Consumer task (pipeline.rs:675-759): the tick branch of its select.
ConsumerTick ==
    /\ session.consumer = "running"
    /\ DrainFrameStep
    /\ UNCHANGED session

\* Consumer task: the cancellation branch of its select.
ConsumerExit ==
    /\ session.consumer = "running"
    /\ session.cancelled
    /\ session' = [session EXCEPT !.consumer = "exited"]
    /\ UNCHANGED non_session_vars

\* Heartbeat task (pipeline.rs:774-803): the cancellation branch.
HeartbeatExit ==
    /\ session.heartbeat = "running"
    /\ session.cancelled
    /\ session' = [session EXCEPT !.heartbeat = "exited"]
    /\ UNCHANGED non_session_vars

\* Clock-sync task (pipeline.rs:814-835): the cancellation branch.
ClockExit ==
    /\ session.clock = "running"
    /\ session.cancelled
    /\ session' = [session EXCEPT !.clock = "exited"]
    /\ UNCHANGED non_session_vars

\* The supervisor (pipeline.rs:984-1001): all task handles have completed and
\* Stopped is published.
\* Variant: the function returns without the last status.
Join_without_publish ==
    /\ session.pc = "join"
    /\ session.consumer = "exited"
    /\ session.heartbeat = "exited"
    /\ session.clock = "exited"
    /\ session.history_task \in {"unspawned", "exited"}
    /\ session' = [session EXCEPT !.pc = "stopped"]
    /\ UNCHANGED non_session_vars

Join ==
    /\ session.pc = "join"
    /\ session.consumer = "exited"
    /\ session.heartbeat = "exited"
    /\ session.clock = "exited"
    /\ session.history_task \in {"unspawned", "exited"}
    /\ session' = [publish_status(session, "Stopped") EXCEPT !.pc = "stopped"]
    /\ UNCHANGED non_session_vars

\* stop_market_stream or a new start: the session's token is cancelled.
Cancel ==
    /\ ~session.cancelled
    /\ session.pc \notin {"stopped", "no_window"}
    /\ session' = [session EXCEPT !.cancelled = TRUE]
    /\ UNCHANGED non_session_vars

ProducerStep ==
    \/ Start \/ HistoryFirstMerged \/ HistoryFirstSkipped
    \/ LoopHead \/ ConnectOk \/ ConnectFail \/ BackoffCancel \/ BackoffWake
    \/ ReadCancel \/ StreamEnd \/ FrameError \/ FrameClose \/ FrameIgnored
    \/ FrameParseError \/ FrameTrade
    \/ ResyncHead \/ FetchOk \/ FetchFail \/ ResyncSleepCancel \/ ResyncSleepWake
    \/ Join

TaskStep ==
    \/ HistoryTaskMerged \/ HistoryTaskSkipped
    \/ ConsumerTick \/ ConsumerExit \/ HeartbeatExit \/ ClockExit

SpecSession == Init /\ [][ProducerStep \/ TaskStep \/ Cancel]_vars

\* Fair scheduling: every task is eventually polled, a select whose
\* cancellation branch is ready eventually takes it, sleeps end, and the
\* network calls in flight (dial, snapshot fetch, history fetch) return.
\* HistoryFirstSkipped, HistoryTaskSkipped and FetchFail are enabled exactly
\* while their call is in flight, so their weak fairness says that the call
\* returns, by them or by the step of the successful call.
SessionFairness ==
    /\ WF_session(Start)
    /\ WF_session(HistoryFirstSkipped)
    /\ WF_session(HistoryTaskSkipped)
    /\ WF_session(LoopHead)
    /\ WF_session(ConnectOk \/ ConnectFail)
    /\ WF_session(BackoffCancel \/ BackoffWake)
    /\ WF_session(ReadCancel)
    /\ WF_session(ResyncHead)
    /\ WF_session(FetchFail)
    /\ WF_session(ResyncSleepCancel \/ ResyncSleepWake)
    /\ WF_session(ConsumerExit)
    /\ WF_session(HeartbeatExit)
    /\ WF_session(ClockExit)
    /\ WF_session(Join)

SpecSessionFair == SpecSession /\ SessionFairness

Spec == Init /\ [][ApplyTrade \/ ApplySnapshot \/ DrainFrame]_vars

SpecHistory == Init /\ [][ApplyTrade \/ ApplySnapshot \/ DrainFrame \/ HistoryMerge]_vars

\* Longer runs of the market operations over fewer trades: one price and
\* quantity, one trade time in each of two buckets, every aggregate trade id.
LongTrades ==
    { [event_time |-> tt, aggregate_trade_id |-> id, price |-> 100,
       quantity |-> 1, trade_time |-> tt, is_buyer_maker |-> FALSE] :
      id \in AggIds, tt \in {60010, 120050} }

\* The state after construction. nops is also the reading of the monotonic
\* clock, whose origin is arbitrary: it starts MaxLongOps operations before
\* the limit MaxOps that the operations share.
InitLong ==
    /\ state = ConflatedMarketState_default
    /\ op = "init"
    /\ arg = None
    /\ ret = None
    /\ nops = MaxOps - MaxLongOps
    /\ frame_trades = <<>>
    /\ eligible_total = 0
    /\ emitted_total = 0
    /\ emitted_t = [candle |-> None, delta_candle |-> None]
    /\ resynced = [last_agg_id |-> None, skipped |-> {}]
    /\ delta_origin = "none"
    /\ bucket_trades = <<>>
    /\ applied_since_drain = FALSE
    /\ frame_first_ingest = None
    /\ producer = "streaming"
    /\ history = "pending"
    /\ telemetry = MarketTelemetryAtomics_default
    /\ session = Session_default
    /\ ewma = ClockSyncEwma_default
    /\ app = AppState_default
    /\ pager = Pager_default
    /\ stream = Stream_default

ApplyTradeLong == ApplyTradeOf(LongTrades) /\ UNCHANGED session

SpecLong == InitLong /\ [][ApplyTradeLong \/ ApplySnapshot \/ DrainFrame \/ HistoryMerge]_vars

SpecLatency == Init /\ [][ClockOffsetUpdate \/ NetworkLatencyUpdate \/ MockLatencyUpdate]_vars

SpecClockSync == Init /\ [][ClockSyncDelay]_vars

SpecBackoff == Init /\ [][ReconnectDelay]_vars

SpecApp == Init /\ [][(\E c \in CallerIds : CommandStep(c)) \/ (\E id \in StreamIds : RunStep(id))]_vars

SpecStream == Init /\ [][StreamStep \/ StreamCancel]_vars

SpecArgs == Init /\ [][StartMarketStreamNormalize]_vars

SpecPager == Init /\ [][PagerStart \/ PagerPage \/ PagerError]_vars

\* The exchange answers every request, with a page or with an error.
SpecPagerFair == SpecPager /\ WF_vars(PagerPage \/ PagerError)

SpecEwma == Init /\ [][EwmaUpdate]_vars

SpecThrottle == Init /\ [][StatusThrottled]_vars

SpecSteady == Init /\ [][EwmaProbe \/ EwmaRepeat]_vars

\* The clock task goes on probing until it is cancelled.
SpecSteadyFair == SpecSteady /\ WF_vars(EwmaRepeat)

---------------------------------------------------------------------------
(* Helpers of the properties *)

Bucket(trade) == trade.trade_time - (trade.trade_time % M1_duration_ms)

Sign(trade) == IF trade.is_buyer_maker THEN -1 ELSE 1

Quantities(trades) == [i \in DOMAIN trades |-> trades[i].quantity]

SignedQuantities(trades) == [i \in DOMAIN trades |-> trades[i].quantity * Sign(trades[i])]

\* The running closes of a delta candle: the sums of the first k signed volumes.
RunningSums(trades) ==
    { SumSeq(SubSeq(SignedQuantities(trades), 1, k)) : k \in 1..Len(trades) }

SetMax(S) == CHOOSE x \in S : \A y \in S : y <= x
SetMin(S) == CHOOSE x \in S : \A y \in S : x <= y

ValidCandle(c) ==
    /\ c.l <= Min(c.o, c.c)
    /\ Min(c.o, c.c) <= Max(c.o, c.c)
    /\ Max(c.o, c.c) <= c.h
    /\ c.v >= 0
    /\ c.t % M1_duration_ms = 0

ValidDeltaCandle(c) ==
    c.o = 0 /\ c.l <= c.c /\ c.c <= c.h /\ c.l <= 0 /\ 0 <= c.h /\ c.v >= 0

Applied == op = "apply_trade" /\ Unwrap(ret).kind = "Applied"

---------------------------------------------------------------------------
(* Claims *)

\* C1: over every trace of apply_trade, apply_snapshot, history merge and
\* drain_frame, state.last_agg_id never decreases (and is never lost).
C1_LastAggIdNeverDecreases ==
    [][IsSome(state.last_agg_id) =>
          /\ IsSome(state'.last_agg_id)
          /\ Unwrap(state'.last_agg_id) >= Unwrap(state.last_agg_id)]_vars

\* C2: apply_trade mutates the state only when last_agg_id is None or the id
\* is last_agg_id + 1; an id <= last_agg_id returns Stale, an id >
\* last_agg_id + 1 returns GapDetected{expected = last_agg_id + 1, found = id},
\* and both rejections leave every field of the state as it was.
C2_SequenceGate ==
    [][op' = "apply_trade" =>
          LET id == Unwrap(arg').aggregate_trade_id
              passes == \/ IsNone(state.last_agg_id)
                        \/ id = Unwrap(state.last_agg_id) + 1
          IN
          /\ (state' /= state) => passes
          /\ passes <=> (Unwrap(ret').kind = "Applied")
          /\ (IsSome(state.last_agg_id) /\ id <= Unwrap(state.last_agg_id)) =>
                /\ Unwrap(ret').kind = "Stale"
                /\ state' = state
          /\ (IsSome(state.last_agg_id) /\ id > Unwrap(state.last_agg_id) + 1) =>
                /\ ret' = Some([kind |-> "GapDetected",
                                expected |-> Unwrap(state.last_agg_id) + 1,
                                found |-> id])
                /\ state' = state]_vars

\* C2 witness: a trade two ids ahead was rejected as a gap and the state
\* still holds the id and price of the trade before it.
C2_Witness ==
    /\ op = "apply_trade"
    /\ Unwrap(ret).kind = "GapDetected"
    /\ Unwrap(ret).expected = 2 /\ Unwrap(ret).found = 3
    /\ state.last_agg_id = Some(1)
    /\ state.last_price = Some(100)

\* C3: drain_frame returns None iff there is no pending tick, no pending
\* candle and no pending delta candle; otherwise the frame holds exactly the
\* pending parts that were present.
C3_DrainNoneIffNothingPending ==
    [][op' = "drain_frame" =>
          LET nothing == /\ IsNone(state.pending_price)
                         /\ IsNone(state.pending_candle)
                         /\ IsNone(state.pending_delta_candle)
          IN
          /\ IsNone(ret') <=> nothing
          /\ IsSome(ret') =>
                /\ Unwrap(ret').tick =
                      IF IsSome(state.pending_price)
                      THEN Some([t |-> state.pending_time,
                                 p |-> Unwrap(state.pending_price),
                                 v |-> state.pending_volume,
                                 d |-> state.pending_direction])
                      ELSE None
                /\ Unwrap(ret').candle = state.pending_candle
                /\ Unwrap(ret').delta_candle = state.pending_delta_candle]_vars

\* C3 witness: a drain returned a frame that has candles but no tick.
C3_Witness ==
    /\ op = "drain_frame"
    /\ IsSome(ret)
    /\ IsNone(Unwrap(ret).tick)
    /\ IsSome(Unwrap(ret).candle)
    /\ IsSome(Unwrap(ret).delta_candle)

\* C4: after any drain_frame, returning a frame or None, the pending tick is
\* reset (price absent, volume 0, direction 0) and last_agg_id, last_price,
\* last_candle and last_delta_candle keep their values.
C4_DrainResetsPendingTick ==
    [][op' = "drain_frame" =>
          /\ IsNone(state'.pending_price)
          /\ state'.pending_volume = 0
          /\ state'.pending_direction = 0
          /\ state'.last_agg_id = state.last_agg_id
          /\ state'.last_price = state.last_price
          /\ state'.last_candle = state.last_candle
          /\ state'.last_delta_candle = state.last_delta_candle]_vars

\* C4 witness: a drain took a tick of a selling trade and the last_* values
\* are still there.
C4_Witness ==
    /\ op = "drain_frame"
    /\ IsSome(ret)
    /\ IsSome(Unwrap(ret).tick)
    /\ Unwrap(Unwrap(ret).tick).d = -1
    /\ Unwrap(Unwrap(ret).tick).v > 0
    /\ IsSome(state.last_agg_id)
    /\ IsSome(state.last_price)
    /\ IsSome(state.last_candle)
    /\ IsSome(state.last_delta_candle)

\* C5: a drained update is never observed twice: a drain with no applied
\* trade since the drain before it returns None, and the tick volumes of all
\* frames plus the volume still pending never exceed the eligible quantity
\* applied, so no quantity is counted in two frames.
C5_DrainedNeverObservedTwice ==
    /\ [](emitted_total + state.pending_volume <= eligible_total)
    /\ [][(op' = "drain_frame" /\ ~applied_since_drain) =>
             IsNone(ret')]_vars

\* C5 witness: a tick was emitted by an earlier drain and the drain after it,
\* with no apply in between, returned None.
C5_Witness ==
    /\ op = "drain_frame"
    /\ IsNone(ret)
    /\ emitted_total > 0
    /\ emitted_total = eligible_total

\* C6: the tick drained after a sequence of eligible trades has the price,
\* the sign and the trade_time of the last of them, and the sum of their
\* quantities, also when that trade_time is older than an earlier one.
C6_TickConflation ==
    [][(op' = "drain_frame" /\ frame_trades /= <<>>) =>
          LET last == frame_trades[Len(frame_trades)] IN
          /\ IsSome(ret')
          /\ Unwrap(ret').tick =
                Some([t |-> last.trade_time,
                      p |-> last.price,
                      v |-> SumSeq(Quantities(frame_trades)),
                      d |-> Sign(last)])]_vars

\* C6 witness: two eligible trades, the second with the older trade_time,
\* were drained as one tick.
C6_Witness ==
    /\ op = "drain_frame"
    /\ IsSome(ret)
    /\ Unwrap(ret).tick = Some([t |-> 60010, p |-> 101, v |-> 3, d |-> -1])
    /\ Len(bucket_trades) = 2
    /\ bucket_trades[1].trade_time = 60100
    /\ bucket_trades[1].quantity = 1

\* C7: a trade that passes the gate with notional < min_notional returns
\* Applied{eligible=false}; it sets last_agg_id and last_price and runs both
\* candle updates, leaves the pending tick as it was, and a drain with no
\* eligible trade since the last drain yields no tick.
C7_IneligibleTrade ==
    [][/\ (op' = "apply_trade" /\ Unwrap(ret').kind = "Applied") =>
             LET trade == Unwrap(arg') IN
             /\ Unwrap(ret').eligible_for_ui =
                   (trade.price * trade.quantity >= DEFAULT_MIN_NOTIONAL_USDT)
             /\ ~Unwrap(ret').eligible_for_ui =>
                   /\ state'.last_agg_id = Some(trade.aggregate_trade_id)
                   /\ state'.last_price = Some(trade.price)
                   /\ state'.pending_price = state.pending_price
                   /\ state'.pending_volume = state.pending_volume
                   /\ state'.pending_direction = state.pending_direction
                   /\ state'.pending_time = state.pending_time
                   /\ IsSome(state'.last_candle)
                   /\ IsSome(state'.last_delta_candle)
                   /\ Bucket(trade) = Unwrap(state'.last_candle).t =>
                         /\ Unwrap(state'.last_candle).c = trade.price
                         /\ state'.pending_candle = state'.last_candle
                   /\ Bucket(trade) = Unwrap(state'.last_delta_candle).t =>
                         state'.pending_delta_candle = state'.last_delta_candle
       /\ (op' = "drain_frame" /\ frame_trades = <<>>) =>
             (IsNone(ret') \/ IsNone(Unwrap(ret').tick))]_vars

\* C7 witness: a trade of notional 20 was applied as not eligible; last_price
\* is 20, no tick is pending and a candle update is.
C7_Witness ==
    /\ op = "apply_trade"
    /\ ret = Some([kind |-> "Applied", eligible_for_ui |-> FALSE])
    /\ state.last_price = Some(20)
    /\ IsNone(state.pending_price)
    /\ IsSome(state.pending_candle)

\* C8: for an applied trade with bucket = trade_time - (trade_time mod
\* timeframe_ms): with no current candle or bucket > current.t a new candle
\* {t=bucket, o=h=l=c=price, v=qty} replaces the current one; with bucket =
\* current.t the current candle is updated in place; with bucket < current.t
\* candle and pending candle are unchanged, while last_agg_id and last_price
\* advance.
C8_CandleUpdateRule ==
    [][(op' = "apply_trade" /\ Unwrap(ret').kind = "Applied") =>
          LET trade == Unwrap(arg')
              bucket == trade.trade_time - (trade.trade_time % M1_duration_ms)
              cur == Unwrap(state.last_candle)
          IN
          /\ state'.last_agg_id = Some(trade.aggregate_trade_id)
          /\ state'.last_price = Some(trade.price)
          /\ (IsNone(state.last_candle) \/ bucket > cur.t) =>
                /\ state'.last_candle =
                      Some([t |-> bucket, o |-> trade.price, h |-> trade.price,
                            l |-> trade.price, c |-> trade.price,
                            v |-> trade.quantity])
                /\ state'.pending_candle = state'.last_candle
          /\ (IsSome(state.last_candle) /\ bucket = cur.t) =>
                /\ state'.last_candle =
                      Some([t |-> cur.t, o |-> cur.o,
                            h |-> Max(cur.h, trade.price),
                            l |-> Min(cur.l, trade.price),
                            c |-> trade.price,
                            v |-> cur.v + trade.quantity])
                /\ state'.pending_candle = state'.last_candle
          /\ (IsSome(state.last_candle) /\ bucket < cur.t) =>
                /\ state'.last_candle = state.last_candle
                /\ state'.pending_candle = state.pending_candle]_vars

\* C8 witness: a trade of an older bucket was applied after the candle had
\* rolled forward; the candle ignores it and last_price follows it.
C8_Witness ==
    /\ Applied
    /\ IsSome(state.last_candle)
    /\ Bucket(Unwrap(arg)) < Unwrap(state.last_candle).t
    /\ state.last_price = Some(Unwrap(arg).price)
    /\ Unwrap(state.last_candle).c /= Unwrap(arg).price

\* C9: every OHLCV candle held in the state or emitted in a frame has
\* l <= min(o,c) <= max(o,c) <= h, v >= 0 and an open time that is a
\* multiple of timeframe_ms.
C9_CandleInvariant ==
    /\ IsSome(state.last_candle) => ValidCandle(Unwrap(state.last_candle))
    /\ IsSome(state.pending_candle) => ValidCandle(Unwrap(state.pending_candle))
    /\ (op = "drain_frame" /\ IsSome(ret) /\ IsSome(Unwrap(ret).candle)) =>
          ValidCandle(Unwrap(Unwrap(ret).candle))

\* C9 witness: a candle of three trades whose open, high, low and close are
\* not all equal: it opened at 100, rose to 101 and closed at its low 20.
C9_Witness ==
    /\ IsSome(state.last_candle)
    /\ Unwrap(state.last_candle).o = 100
    /\ Unwrap(state.last_candle).h = 101
    /\ Unwrap(state.last_candle).l = 20
    /\ Unwrap(state.last_candle).c = 20
    /\ Unwrap(state.last_candle).v = 4

\* C10: every delta candle produced by applied trades has o = 0, c = the sum
\* of quantity x direction over the trades of its bucket, h = the maximum of
\* 0 and all running values of c, l = the minimum of 0 and all running
\* values of c (so l <= c <= h), and v = the sum of the quantities.
C10_DeltaCandleInvariant ==
    /\ (delta_origin = "trade") =>
          LET dc == Unwrap(state.last_delta_candle) IN
          /\ IsSome(state.last_delta_candle)
          /\ bucket_trades /= <<>>
          /\ \A i \in DOMAIN bucket_trades : Bucket(bucket_trades[i]) = dc.t
          /\ dc.o = 0
          /\ dc.c = SumSeq(SignedQuantities(bucket_trades))
          /\ dc.h = SetMax({0} \cup RunningSums(bucket_trades))
          /\ dc.l = SetMin({0} \cup RunningSums(bucket_trades))
          /\ dc.v = SumSeq(Quantities(bucket_trades))
          /\ dc.l <= dc.c /\ dc.c <= dc.h
    /\ IsSome(state.pending_delta_candle) =>
          ValidDeltaCandle(Unwrap(state.pending_delta_candle))
    /\ (op = "drain_frame" /\ IsSome(ret) /\ IsSome(Unwrap(ret).delta_candle)) =>
          ValidDeltaCandle(Unwrap(Unwrap(ret).delta_candle))

\* C10 witness: a delta candle of three trades whose close lies strictly
\* between its low and its high.
C10_Witness ==
    /\ delta_origin = "trade"
    /\ Len(bucket_trades) = 3
    /\ Unwrap(state.last_delta_candle).l < Unwrap(state.last_delta_candle).c
    /\ Unwrap(state.last_delta_candle).c < Unwrap(state.last_delta_candle).h
    /\ Unwrap(state.last_delta_candle).l < 0
    /\ Unwrap(state.last_delta_candle).h > 0

\* C11: from the empty state, after N >= 1 consecutive applied trades whose
\* trade times fall in one bucket, one drain yields the candle with t = the
\* bucket open time, o = the first price, h = the maximum price, l = the
\* minimum price, c = the last price and v = the sum of the N quantities.
\* (Len(bucket_trades) = nops says that every operation so far was an applied
\* trade of one bucket.)
C11_DrainAfterNApplies ==
    [][(op' = "drain_frame" /\ nops >= 1 /\ Len(bucket_trades) = nops) =>
          LET prices == {bucket_trades[i].price : i \in DOMAIN bucket_trades} IN
          /\ IsSome(ret')
          /\ Unwrap(ret').candle =
                Some([t |-> Bucket(bucket_trades[1]),
                      o |-> bucket_trades[1].price,
                      h |-> SetMax(prices),
                      l |-> SetMin(prices),
                      c |-> bucket_trades[Len(bucket_trades)].price,
                      v |-> SumSeq(Quantities(bucket_trades))])]_vars

\* C11 witness: the trades (p=100, q=1) and (p=101, q=2) of bucket 60000 were
\* applied to the empty state and one drain returned their candle.
C11_Witness ==
    /\ op = "drain_frame"
    /\ nops = 3
    /\ Len(bucket_trades) = 2
    /\ IsSome(ret)
    /\ Unwrap(ret).candle =
          Some([t |-> 60000, o |-> 100, h |-> 101, l |-> 100, c |-> 101, v |-> 3])

\* C12: apply_snapshot(id, price) sets last_agg_id = id and last_price =
\* price whatever they were (also when id is below the current id), clears
\* the pending tick accumulator, and leaves last_candle, pending_candle,
\* last_delta_candle and pending_delta_candle unchanged.
C12_ApplySnapshotFrame ==
    [][op' = "apply_snapshot" =>
          /\ state'.last_agg_id = Some(Unwrap(arg').aggregate_trade_id)
          /\ state'.last_price = Some(Unwrap(arg').price)
          /\ IsNone(state'.pending_price)
          /\ state'.pending_volume = 0
          /\ state'.pending_direction = 0
          /\ state'.pending_time = 0
          /\ state'.last_candle = state.last_candle
          /\ state'.pending_candle = state.pending_candle
          /\ state'.last_delta_candle = state.last_delta_candle
          /\ state'.pending_delta_candle = state.pending_delta_candle]_vars

\* C12 witness: a snapshot with an id below the current one was applied while
\* an eligible trade was pending and never drained; the tick is gone and the
\* candles are still pending.
C12_Witness ==
    /\ op = "apply_snapshot"
    /\ state.last_agg_id = Some(0)
    /\ eligible_total > 0
    /\ emitted_total = 0
    /\ IsNone(state.pending_price)
    /\ IsSome(state.last_candle)
    /\ IsSome(state.pending_candle)
    /\ IsSome(state.pending_delta_candle)

\* C13: apply_snapshot is idempotent on last_agg_id, last_price and the
\* pending tick: applying it again with the same (id, price) to the state it
\* produced gives the same values of these fields.
C13_ApplySnapshotIdempotent ==
    [][op' = "apply_snapshot" =>
          LET once == state'
              twice == apply_snapshot(once, Unwrap(arg').aggregate_trade_id,
                                      Unwrap(arg').price)
          IN
          /\ twice.last_agg_id = once.last_agg_id
          /\ twice.last_price = once.last_price
          /\ twice.pending_price = once.pending_price
          /\ twice.pending_volume = once.pending_volume
          /\ twice.pending_direction = once.pending_direction
          /\ twice.pending_time = once.pending_time]_vars

\* C13 witness: a snapshot changed both the id and the price of a state that
\* held a pending tick, so the first application was not a no-op.
C13_Witness ==
    /\ op = "apply_snapshot"
    /\ state.last_agg_id = Some(2)
    /\ state.last_price = Some(20)
    /\ Unwrap(state.last_candle).c = 101
    /\ eligible_total = 2
    /\ emitted_total = 0

\* C14: within one frame pending_ingest_started_at is first-wins: it holds
\* the ingest instant of the first trade applied since the last drain, later
\* applied trades do not overwrite it, the frame's local_pipeline_latency_ms
\* is the drain instant minus that first instant (clamped to >= 0), and the
\* drain consumes the instant.
C14_IngestInstantFirstWins ==
    [][/\ (op' = "apply_trade" /\ Unwrap(ret').kind = "Applied") =>
             state'.pending_ingest_started_at = frame_first_ingest'
       /\ (op' = "drain_frame" /\ IsSome(ret') /\ IsSome(frame_first_ingest)) =>
             /\ Unwrap(ret').local_pipeline_latency_ms =
                   Some(Max(nops - Unwrap(frame_first_ingest), 0))
             /\ IsNone(state'.pending_ingest_started_at)]_vars

\* C15: adjusted_network_latency_ms(raw, offset) is max(0, raw + offset) when
\* the clock offset is known and max(0, raw) otherwise (the sum saturating at
\* the top of the i64 range), and the adjusted latency stored in the
\* telemetry is >= 0 in every reachable state.
C15_AdjustedLatencyNonNegative ==
    /\ IsSome(telemetry.adjusted_network_latency_ms) =>
          Unwrap(telemetry.adjusted_network_latency_ms) >= 0
    /\ IsSome(telemetry.latency_ms) => Unwrap(telemetry.latency_ms) >= 0
    /\ op = "adjusted_network_latency_ms" =>
          LET raw == Unwrap(arg).raw_exchange_latency_ms
              offset == Unwrap(arg).clock_offset_ms
              sum == IF IsSome(offset) THEN raw + Unwrap(offset) ELSE raw
          IN
          /\ ret = Some(IF sum > I64_MAX THEN I64_MAX ELSE Max(0, sum))
          /\ telemetry.adjusted_network_latency_ms = ret

\* C15 witness: raw = -600 with offset 650 was stored as 50.
C15_Witness ==
    /\ op = "adjusted_network_latency_ms"
    /\ arg = Some([raw_exchange_latency_ms |-> -600, clock_offset_ms |-> Some(650)])
    /\ ret = Some(50)
    /\ telemetry.adjusted_network_latency_ms = Some(50)

\* C16: next_clock_sync_delay_ms(base, rtt, residual) with B = max(base,
\* 10000) is 2B when rtt <= 120 and residual <= 20, else 1.5B (rounded down)
\* when rtt <= 250 and residual <= 50, else B, clamped into [10000, 90000].
C16_NextClockSyncDelay ==
    op = "next_clock_sync_delay_ms" =>
        LET a == Unwrap(arg)
            B == Max(a.base_interval_ms, 10000)
            tier == IF a.rtt_ms <= 120 /\ a.residual_offset_ms <= 20 THEN 4
                    ELSE IF a.rtt_ms <= 250 /\ a.residual_offset_ms <= 50 THEN 3
                    ELSE 2
        IN
        /\ Unwrap(ret) >= 10000
        /\ Unwrap(ret) <= 90000
        /\ IF B >= 90000 THEN Unwrap(ret) = 90000
           ELSE Unwrap(ret) = Min((tier * B) \div 2, 90000)

\* C16 witness: base = 30000, rtt = 90, residual = 10 gave 60000.
C16_Witness ==
    /\ op = "next_clock_sync_delay_ms"
    /\ arg = Some([base_interval_ms |-> 30000, rtt_ms |-> 90,
                   residual_offset_ms |-> 10])
    /\ ret = Some(60000)

\* The pairs of the form Connecting -> Live -> (Desynced -> Reconnecting ->
\* Live)* -> Stopped: what may follow each state.
FormPairs ==
    { <<"None", "Connecting">>, <<"Connecting", "Live">>,
      <<"Live", "Desynced">>, <<"Desynced", "Reconnecting">>,
      <<"Reconnecting", "Live">>, <<"Live", "Stopped">> }

ProducerPairs ==
    { <<"None", "Connecting">>,
      <<"Connecting", "Live">>, <<"Connecting", "Reconnecting">>,
      <<"Connecting", "Stopped">>,
      <<"Live", "Desynced">>, <<"Live", "Error">>, <<"Live", "Connecting">>,
      <<"Live", "Reconnecting">>, <<"Live", "Stopped">>,
      <<"Error", "Desynced">>, <<"Error", "Connecting">>,
      <<"Error", "Reconnecting">>, <<"Error", "Stopped">>,
      <<"Desynced", "Reconnecting">>, <<"Desynced", "Stopped">>,
      <<"Reconnecting", "Live">>, <<"Reconnecting", "Stopped">> }

ResyncPositions == {"resync", "fetch", "resync_sleep"}

\* C18: a trade that returns GapDetected makes the producer publish
\* Desynced and enter the resync; the resync is left only by a fetched
\* snapshot, which is applied (last_agg_id is the snapshot's id) with Live
\* published, or by cancellation; a failed fetch counts an attempt and is
\* followed by the backoff sleep and the next attempt.
C18_GapResync ==
    [][/\ (op' = "apply_trade" /\ nops' = nops + 1
            /\ Unwrap(ret').kind = "GapDetected" /\ session.pc = "read") =>
              /\ session.published' = "Desynced"
              /\ session.pc' = "resync"
       /\ (session.pc \in ResyncPositions
            /\ session.pc' \notin ResyncPositions) =>
              \/ session.cancelled /\ session.pc' = "join"
              \/ /\ op' = "apply_snapshot" /\ nops' = nops + 1
                 /\ session.published' = "Live"
                 /\ state'.last_agg_id = Some(Unwrap(arg').aggregate_trade_id)
       /\ (session.pc = "fetch" /\ session.pc' \in ResyncPositions) =>
              /\ session.pc' \in {"fetch", "resync_sleep"}
              /\ session.pc' = "resync_sleep" =>
                    session.attempt' = attempt_saturating_add(session.attempt)
       /\ (session.pc = "resync_sleep" /\ session.pc' \in ResyncPositions) =>
              session.pc' \in {"resync_sleep", "resync"}
       /\ (session.pc = "resync" /\ session.pc' \in ResyncPositions) =>
              /\ session.pc' \in {"resync", "fetch"}
              /\ session.pc' = "fetch" => session.published' = "Reconnecting"
      ]_vars

\* A gap was followed by a failed fetch, a retry and a fetched snapshot.
C18_Witness ==
    /\ op = "apply_snapshot"
    /\ session.published = "Live"
    /\ session.pc = "loop"
    /\ session.attempt > 0
    /\ ~session.cancelled
    /\ state.last_agg_id = Some(Unwrap(arg).aggregate_trade_id)

\* C19: the reconnect loop is left (the producer awaits the tasks) only when
\* the cancellation has been signalled: a failed dial, a frame error, the end
\* of the stream, a Close frame, a parse error and a gap leave the session
\* running; a failed dial leads to the backoff sleep, the end of a connection
\* to the backoff sleep or straight to the next pass of the loop, and the
\* backoff sleep to the next pass of the loop.
C19_LoopExitsOnlyOnCancel ==
    [][/\ (session.pc' = "join" /\ session.pc /= "join") => session.cancelled
       /\ session.pc' = "stopped" => session.pc \in {"join", "stopped"}
       /\ (session.pc = "connect" /\ session.pc' /= "connect") =>
              session.pc' \in {"read", "backoff"}
       /\ (session.pc = "read" /\ ~session.cancelled) =>
              session.pc' \in {"read", "resync", "backoff", "loop"}
       /\ (session.pc = "backoff" /\ ~session.cancelled) =>
              session.pc' \in {"backoff", "loop"}
       /\ (session.pc = "loop" /\ ~session.cancelled) =>
              session.pc' \in {"loop", "connect"}
      ]_vars

\* After MaxAttempt ended connections the session dials again.
C19_Witness ==
    /\ session.pc = "connect"
    /\ ~session.cancelled
    /\ session.reconnect_attempt = MaxAttempt
    /\ session.published = "Reconnecting"

SessionStopped ==
    /\ session.pc = "stopped"
    /\ session.published = "Stopped"
    /\ session.consumer = "exited"
    /\ session.heartbeat = "exited"
    /\ session.clock = "exited"
    /\ session.history_task \in {"unspawned", "exited"}

\* C20 as stated: once the cancellation signal is raised, the tasks exit and
\* Stopped is eventually published.
C20_CancelLeadsToStopped == session.cancelled ~> SessionStopped

\* C20, amended: once the cancellation signal is raised, either the session
\* finds no main window and returns at once, or the producer, consumer,
\* heartbeat, clock-sync and history tasks each exit and the supervisor
\* eventually publishes Stopped (under fair scheduling, the network calls in
\* flight returning).
C20_CancelLeadsToStoppedOrNoWindow ==
    session.cancelled ~> (SessionStopped \/ session.pc = "no_window")

\* A cancelled LiveFirst session whose four tasks have exited and whose
\* last status is Stopped.
C20_Witness ==
    /\ SessionStopped
    /\ session.cancelled
    /\ session.startup_mode = "LiveFirst"
    /\ session.history_task = "exited"

\* C24: whatever live trades were applied before the history merge runs, the
\* merge sets last_candle to the last fetched candle only if its open time is
\* at least that of the candle held (or none is held), and leaves last_candle
\* as it is when the fetched one is older or nothing was fetched; the same
\* holds of last_delta_candle.
C24_HistoryNeverClobbersNewer ==
    [][op' = "history_merge" =>
         LET candles == Unwrap(arg').candles
             delta_candles == Unwrap(arg').delta_candles
             fetched == candles[Len(candles)]
             delta_fetched == delta_candles[Len(delta_candles)]
         IN
         /\ state'.last_candle =
               IF candles = <<>> THEN state.last_candle
               ELSE IF IsSome(state.last_candle)
                       /\ fetched.t < Unwrap(state.last_candle).t
                    THEN state.last_candle
               ELSE Some(fetched)
         /\ state'.last_delta_candle =
               IF delta_candles = <<>> THEN state.last_delta_candle
               ELSE IF IsSome(state.last_delta_candle)
                       /\ delta_fetched.t < Unwrap(state.last_delta_candle).t
                    THEN state.last_delta_candle
               ELSE Some(delta_fetched)]_vars

\* A merge whose last fetched candle is older than the live candle formed
\* by two trades during the fetch: the live candle is kept.
C24_Witness ==
    /\ op = "history_merge"
    /\ nops = 3
    /\ Len(Unwrap(arg).candles) = 1
    /\ IsSome(state.last_candle)
    /\ Unwrap(arg).candles[1].t = 60000
    /\ Unwrap(state.last_candle).t = 120000
    /\ Unwrap(state.last_delta_candle).t = 120000
    /\ Unwrap(arg).delta_candles /= <<>>

Abs(x) == IF x < 0 THEN -x ELSE x

\* The quotient x * alpha / 1000 truncated toward zero, from the sign and
\* the magnitude of x.
TruncatedShare(x, alpha) ==
    IF x >= 0 THEN (x * alpha) \div 1000 ELSE -((Abs(x) * alpha) \div 1000)

\* C28: the first update seeds the value with the sample; every later update
\* adds trunc(clamp(sample - value, -300, 300) * alpha / 1000) with alpha =
\* 280, 200, 130 or 90 by the round trip (<= 80, <= 180, <= 350, above), so
\* the value moves by at most 84, toward the sample and never past it; the
\* new value is returned.
C28_EwmaUpdate ==
    [][op' = "ClockSyncEwma_update" =>
         LET sample == Unwrap(arg').sample_ms
             rtt == Unwrap(arg').rtt_ms
             alpha == IF rtt <= 80 THEN 280 ELSE IF rtt <= 180 THEN 200
                      ELSE IF rtt <= 350 THEN 130 ELSE 90
             distance == sample - ewma.value_ms
             bounded == IF distance > 300 THEN 300
                        ELSE IF distance < -300 THEN -300 ELSE distance
             moved == ewma'.value_ms - ewma.value_ms
         IN
         /\ ewma'.initialized
         /\ ret' = Some(ewma'.value_ms)
         /\ ~ewma.initialized => ewma'.value_ms = sample
         /\ ewma.initialized =>
               /\ moved = TruncatedShare(bounded, alpha)
               /\ Abs(moved) <= 84
               /\ sample >= ewma.value_ms =>
                     (ewma.value_ms <= ewma'.value_ms /\ ewma'.value_ms <= sample)
               /\ sample <= ewma.value_ms =>
                     (sample <= ewma'.value_ms /\ ewma'.value_ms <= ewma.value_ms)
      ]_vars

\* The smoother seeded with 1000 met the lowest sample on the fastest tier
\* and moved down by the largest step, 84.
C28_Witness ==
    /\ op = "ClockSyncEwma_update"
    /\ nops = 2
    /\ Unwrap(arg).sample_ms = I64_MIN
    /\ Unwrap(arg).rtt_ms = 80
    /\ ewma = [initialized |-> TRUE, value_ms |-> 916]

\* C29: reconnect_delay(attempt) is min(5000, 200 * 2^min(attempt, 6) +
\* jitter) with the jitter in 0..249; it is at most 5000 for every attempt,
\* at least 400 from attempt 1 on, and with the same jitter no smaller
\* attempt gives a longer delay.
C29_ReconnectDelay ==
    [][op' = "reconnect_delay" =>
         LET attempt == Unwrap(arg').attempt
             jitter == Unwrap(arg').now_unix_ms % 250
             doublings == IF attempt < 6 THEN attempt ELSE 6
             uncapped == 200 * 2^doublings + jitter
             delay == Unwrap(ret')
         IN
         /\ jitter \in 0..249
         /\ delay = IF uncapped < 5000 THEN uncapped ELSE 5000
         /\ delay <= 5000
         /\ attempt >= 1 => delay >= 400
         /\ \A smaller \in Attempts :
               smaller <= attempt =>
                   reconnect_delay(smaller, Unwrap(arg').now_unix_ms) <= delay
      ]_vars

\* Attempt 4 with jitter 249 stays under the cap (3449) and attempt 5 with
\* the same jitter reaches it.
C29_Witness ==
    /\ op = "reconnect_delay"
    /\ Unwrap(arg) = [attempt |-> 5, now_unix_ms |-> 60249]
    /\ ret = Some(5000)
    /\ reconnect_delay(4, 60249) = 3449

\* C26: whatever pages the exchange returns, the rows the paginator returns
\* are in strictly ascending open time (so no open time occurs twice) and
\* are at most target many.
C26_PaginatorSortedDeduped ==
    (pager.pc = "done" /\ IsSome(ret)) =>
        LET rows == Unwrap(ret) IN
        /\ \A i \in 1..(Len(rows) - 1) : rows[i] < rows[i + 1]
        /\ IsSome(pager.target_limit) => Len(rows) <= Unwrap(pager.target_limit)

\* What C27 calls an invalid argument, read off the arguments as given.
C27_Invalid(a) ==
    \/ /\ IsSome(a.emit_interval_ms)
       /\ Unwrap(a.emit_interval_ms) \notin 8..1000
    \/ /\ IsSome(a.clock_sync_interval_ms)
       /\ Unwrap(a.clock_sync_interval_ms) \notin 5000..300000
    \/ /\ IsSome(a.history_limit)
       /\ Unwrap(a.history_limit) \notin 50..10000
    \/ /\ IsSome(a.min_notional_usdt)
       /\ LET x == Unwrap(a.min_notional_usdt)
          IN x.class /= "finite" \/ x.v < 0
    \/ /\ IsSome(a.symbol)
       /\ LET str == Unwrap(a.symbol)
              core == {i \in 1..Len(str) : ~is_whitespace(str[i])}
          IN \/ core = {}
             \/ \E i \in 1..Len(str) :
                   /\ \E j \in core : j <= i
                   /\ \E j \in core : j >= i
                   /\ ~is_ascii_alphanumeric(str[i])

\* The symbol out is the symbol in without the white space at its ends and
\* with its letters in upper case.
C27_TrimmedUpper(in, out) ==
    \E lead \in 0..Len(in) :
        /\ lead + Len(out) <= Len(in)
        /\ \A i \in 1..Len(in) :
             (i <= lead \/ i > lead + Len(out)) => is_whitespace(in[i])
        /\ out /= <<>> => ~is_whitespace(in[lead + 1])
                          /\ ~is_whitespace(in[lead + Len(out)])
        /\ \A i \in 1..Len(out) :
             /\ out[i] = to_ascii_uppercase(in[lead + i])
             /\ out[i] \notin {"b", "t", "c"}

\* C27: normalize returns InvalidArgument, and the command starts no
\* session, whenever a number is outside its range, min_notional is
\* negative or not finite, or the symbol is empty or not ASCII alphanumeric;
\* otherwise it returns a config in which every absent field has its default,
\* every given field its value, and the symbol is trimmed and upper-cased.
C27_NormalizeValidates ==
    [][op' = "StartMarketStreamArgs_normalize" =>
        LET a == Unwrap(arg')
            r == Unwrap(ret')
        IN IF C27_Invalid(a)
           THEN /\ r = [kind |-> "Err", error |-> "InvalidArgument"]
                /\ UNCHANGED <<app, session>>
           ELSE /\ r.kind = "Ok"
                /\ LET c == r.config IN
                   /\ c.market_kind = IF IsSome(a.market_kind) THEN Unwrap(a.market_kind) ELSE "Spot"
                   /\ IF IsSome(a.symbol)
                      THEN C27_TrimmedUpper(Unwrap(a.symbol), c.symbol)
                      ELSE c.symbol = <<"B", "T", "C", "U", "S", "D", "T">>
                   /\ c.min_notional_usdt =
                        IF IsSome(a.min_notional_usdt) THEN Unwrap(a.min_notional_usdt)
                        ELSE [class |-> "finite", v |-> 100]
                   /\ c.emit_interval_ms =
                        IF IsSome(a.emit_interval_ms) THEN Unwrap(a.emit_interval_ms) ELSE 16
                   /\ c.mock_mode = IF IsSome(a.mock_mode) THEN Unwrap(a.mock_mode) ELSE FALSE
                   /\ c.emit_legacy_price_event =
                        IF IsSome(a.emit_legacy_price_event)
                        THEN Unwrap(a.emit_legacy_price_event) ELSE FALSE
                   /\ c.emit_legacy_frame_events =
                        IF IsSome(a.emit_legacy_frame_events)
                        THEN Unwrap(a.emit_legacy_frame_events) ELSE FALSE
                   /\ c.perf_telemetry =
                        IF IsSome(a.perf_telemetry) THEN Unwrap(a.perf_telemetry) ELSE FALSE
                   /\ c.clock_sync_interval_ms =
                        IF IsSome(a.clock_sync_interval_ms)
                        THEN Unwrap(a.clock_sync_interval_ms) ELSE 30000
                   /\ c.timeframe = IF IsSome(a.timeframe) THEN Unwrap(a.timeframe) ELSE "M1"
                   /\ c.startup_mode =
                        IF IsSome(a.startup_mode) THEN Unwrap(a.startup_mode) ELSE "LiveFirst"
                   /\ c.history_limit =
                        IF IsSome(a.history_limit) THEN Unwrap(a.history_limit) ELSE 5000
    ]_vars

\* A symbol with white space at its ends and lower-case letters was accepted
\* and normalized, with the other fields absent.
C27_Witness ==
    /\ op = "StartMarketStreamArgs_normalize"
    /\ Unwrap(arg).symbol = Some(<<" ", "b", "1", "tab">>)
    /\ Unwrap(arg).emit_interval_ms = None
    /\ Unwrap(ret).kind = "Ok"
    /\ Unwrap(ret).config.symbol = <<"B", "1">>
    /\ Unwrap(ret).config.emit_interval_ms = 16

\* C30: a successful connect resets the attempt counter to 0; after a
\* successful snapshot resync or a Close frame the producer, unless
\* cancelled, goes back to the head of the loop with the counter at 0 and
\* without the backoff sleep; after a connect failure, and after a frame
\* error or the end of the stream unless cancelled, it increments the
\* counter (a saturating add) and enters the backoff sleep, which it leaves
\* only for the head of the loop or, cancelled, for the shutdown.
C30_ReconnectCounter ==
    [][/\ (session.pc = "connect" /\ session'.pc = "read")
            => session'.reconnect_attempt = 0
       /\ (~session.cancelled /\ (FrameClose \/
               (session.pc = "fetch" /\ session'.pc \notin {"fetch", "resync_sleep"})))
            => /\ session'.pc = "loop"
               /\ session'.reconnect_attempt = 0
       /\ ((session.pc = "connect" /\ session'.pc \notin {"connect", "read"})
           \/ (~session.cancelled /\ (StreamEnd \/ FrameError)))
            => /\ session'.pc = "backoff"
               /\ session'.reconnect_attempt =
                     IF session.reconnect_attempt < MaxAttempt
                     THEN session.reconnect_attempt + 1 ELSE MaxAttempt
       /\ (session.pc = "backoff" /\ session'.pc /= "backoff")
            => \/ session'.pc = "loop" /\ session'.reconnect_attempt >= 1
               \/ session'.pc = "join" /\ session.cancelled
       /\ (session'.pc = "connect" /\ session.pc /= "connect")
            => session.pc = "loop"
    ]_vars

\* After a connect failure the stream was dialled again and ended with a
\* Close frame or a resync: the producer is back at the head of the loop
\* with the counter at 0, Live being the last state it published.
C30_Witness ==
    /\ session.pc = "loop"
    /\ ~session.cancelled
    /\ session.published = "Live"
    /\ session.reconnect_attempt = 0
    /\ session.throttle.last_reason = Some("websocket connect error")

\* C21: once run_market_stream has returned, which it does right after
\* publishing Stopped, the consumer, heartbeat, clock-sync and loader tasks
\* have all completed and no step of the session or of its tasks can be
\* taken, so none of them emits a frame update, status, perf or bootstrap
\* event after the Stopped status.
C21_StoppedAfterTasks ==
    [](stream.pc = "done" =>
          /\ stream.consumer \in {"unspawned", "exited"}
          /\ stream.heartbeat \in {"unspawned", "exited"}
          /\ stream.clock \in {"unspawned", "exited"}
          /\ stream.loader \in {"unspawned", "exited"}
          /\ ~ENABLED StreamStep)

\* A LiveFirst session whose loader emitted the bootstrap events was
\* cancelled, joined its four tasks and published Stopped.
C21_Witness ==
    /\ stream.pc = "done"
    /\ stream.market_status = [state |-> "Stopped", telemetry |-> "atomics"]
    /\ stream.consumer = "exited"
    /\ stream.heartbeat = "exited"
    /\ stream.clock = "exited"
    /\ stream.loader = "exited"
    /\ stream.bootstrap = "both"

\* While the producer runs and the session is not cancelled, the consumer,
\* heartbeat and clock-sync tasks run.
TasksRun ==
    (stream.pc = "loop" /\ ~stream.cancelled) =>
        /\ stream.consumer = "running"
        /\ stream.heartbeat \in {"running", "publishing"}
        /\ stream.clock = "running"

\* The step in which the inline load of HistoryFirst ends on a failed OHLC
\* fetch publishes Error and leaves the supervisor where it is.
OhlcFailureInline ==
    (stream.loader = "fetching" /\ stream'.loader = "exited") =>
        /\ stream.pc = "history_first"
        /\ stream'.market_status.state = "Error"
        /\ stream'.pc = "history_first"
        /\ stream'.cancelled = stream.cancelled

\* The step in which a load that got the OHLC series but no delta series
\* goes on, the session not being cancelled: the series are merged and both
\* bootstrap events are emitted, the delta one empty.
DeltaFailureMerged ==
    (stream.loader = "loaded_delta_empty" /\ stream'.loader /= "loaded_delta_empty"
       /\ ~stream.cancelled) =>
        /\ stream'.bootstrap = "both_delta_empty"
        /\ stream'.pc = stream.pc

C22_Spawns(c) ==
    /\ app.callers[c].pc = "start_join"
    /\ app'.callers[c].pc = "start_install"

C23_AfterStops ==
    /\ op = "stop_market_stream"
    /\ \A c \in CallerIds : app.callers[c].pc = "idle"
    /\ app.market_stream = None

\* C23: stop_market_stream leaves the slot empty when it takes the handle;
\* it returns stopped = true exactly when it took a handle, whose session
\* it has then cancelled and joined, and writes the Stopped snapshot without
\* telemetry; and after stops, no command being in flight, the store holds
\* Stopped with every telemetry field absent.
C23_StopIdempotent ==
    /\ [][\A c \in CallerIds :
            /\ (app.callers[c].pc = "idle"
                  /\ app'.callers[c].pc \in {"stop_join", "stop_write"}) =>
                  app'.market_stream = None
            /\ (app.callers[c].pc = "stop_write"
                  /\ app'.callers[c].pc = "idle") =>
                  /\ Unwrap(ret').stopped = IsSome(app.callers[c].existing_handle)
                  /\ IsSome(app.callers[c].existing_handle) =>
                        LET taken == app.runs[Unwrap(app.callers[c].existing_handle)]
                        IN  taken.cancelled /\ taken.pc = "done"
                  /\ app'.market_status = stopped_snapshot]_vars
    /\ [](C23_AfterStops => app.market_status = stopped_snapshot)

\* The session tasks that were spawned and have not returned.
C35_Running == {id \in StreamIds : app.runs[id].pc \in {"start", "running"}}

\* C35: under every interleaving of start_market_stream and
\* stop_market_stream invocations at most one session task is running, and
\* the handle of every running session is in the market_stream slot or in
\* the hands of the invocation that is about to install it or is joining it.
C35_OneSessionWithHandle ==
    /\ Cardinality(C35_Running) <= 1
    /\ \A id \in C35_Running :
          \/ app.market_stream = Some(id)
          \/ \E c \in CallerIds :
                \/ app.callers[c].existing_handle = Some(id)
                \/ app.callers[c].join_handle = Some(id)

\* C34: the write of a heartbeat republish leaves the connection state of
\* the status store as it finds it, so that the store keeps the state of the
\* most recent publication by the producer, the consumer or the loader,
\* whatever was published since the heartbeat read the store.
C34_HeartbeatKeepsState ==
    [][(stream.heartbeat = "publishing" /\ stream'.heartbeat = "running") =>
          stream'.market_status.state = stream.market_status.state]_vars

\* C37: a status that the loader publishes while the producer runs and the
\* store holds Live ('delta history unavailable' when the delta fetch
\* failed, 'historical candles loaded' at the end of the load, or the
\* republish after a failed load) leaves the state of the store Live.
C37_LoaderKeepsLive ==
    [][(/\ stream.pc = "loop"
        /\ stream.market_status.state = "Live"
        /\ \/ stream.loader = "fetching" /\ stream'.loader = "loaded_delta_empty"
           \/ stream.loader = "publishing" /\ stream'.loader = "exited"
           \/ stream.loader = "failed" /\ stream'.loader = "exited") =>
          stream'.market_status.state = "Live"]_vars

\* C31: the paginator terminates whatever the exchange answers.  A pass of
\* the loop that goes on asked for min(remaining, page limit) rows, got a
\* page that is not empty and not shorter than asked for, whose oldest open
\* time is above 0 and strictly below that of the page before, and left the
\* rows held below the target; so the oldest open time, a positive integer,
\* falls with every pass.  And a load in the loop leaves it.
C31_PaginatorTerminates ==
    /\ [][(pager.pc = "loop" /\ pager'.pc = "loop") =>
            LET request == Unwrap(arg')
                page == request.page
            IN  /\ request.request_limit =
                      IF IsSome(pager.target_limit)
                      THEN Min(Unwrap(pager.target_limit) - Len(pager.candles_rev),
                               MaxPage)
                      ELSE MaxPage
                /\ request.request_limit >= 1
                /\ Len(page) >= request.request_limit
                /\ page[1] > 0
                /\ IsSome(pager.previous_oldest_open_time) =>
                      page[1] < Unwrap(pager.previous_oldest_open_time)
                /\ pager'.previous_oldest_open_time = Some(page[1])
                /\ pager'.end_time = Some(page[1] - 1)
                /\ request.end_time = pager.end_time
                /\ Len(pager'.candles_rev) = Len(pager.candles_rev) + Len(page)
                /\ IsSome(pager.target_limit) =>
                      Len(pager'.candles_rev) < Unwrap(pager.target_limit)]_vars
    /\ (pager.pc = "loop") ~> (pager.pc \in {"done", "failed"})

\* A load of the whole history ended on a full page that was not older than
\* the page before it: the exchange ignored endTime.
C31_Witness ==
    /\ pager.pc = "done"
    /\ pager.target_limit = None
    /\ op = "klines_page"
    /\ IsSome(pager.previous_oldest_open_time)
    /\ Len(Unwrap(arg).page) = MaxPage
    /\ Unwrap(arg).page[1] >= Unwrap(pager.previous_oldest_open_time)
    /\ Unwrap(arg).page[1] > 0

\* The call of publish_status_throttled in this step is one to suppress: its
\* state is Error or Reconnecting, and the throttle holds the same state and
\* the same reason from a publish less than STATUS_ERROR_THROTTLE_MS earlier.
C32_Duplicate(call) ==
    /\ call.state \in {"Error", "Reconnecting"}
    /\ session.throttle.last_state = Some(call.state)
    /\ session.throttle.last_reason = Some(call.reason)
    /\ IsSome(session.throttle.last_emit)
    /\ call.now - Unwrap(session.throttle.last_emit) < 500

\* C32: publish_status_throttled suppresses a publish exactly when it is
\* such a duplicate, and then neither the published state nor the throttle
\* changes; in every other case the status is published and the throttle
\* records its state, its reason and the time of the call.
C32_ThrottleSuppressesDuplicates ==
    [][op' = "publish_status_throttled" =>
          LET call == Unwrap(arg') IN
          IF C32_Duplicate(call)
          THEN /\ ~Unwrap(ret').allow
               /\ session' = session
          ELSE /\ Unwrap(ret').allow
               /\ session'.published = call.state
               /\ session'.throttle = [last_state |-> Some(call.state),
                                       last_reason |-> Some(call.reason),
                                       last_emit |-> Some(call.now)]]_vars

\* Reconnecting was published at 501 and the same status, called again with
\* the same reason 499 ms later, was suppressed.
C32_Witness ==
    /\ op = "publish_status_throttled"
    /\ ~Unwrap(ret).allow
    /\ Unwrap(arg).state = "Reconnecting"
    /\ Unwrap(arg).now = 1000
    /\ session.throttle.last_emit = Some(501)
    /\ session.published = "Reconnecting"

\* C33: a step of handle_message on a payload that does not parse publishes
\* Error unless the throttle holds Error with the same reason, leaves the
\* conflated state and the telemetry as they are, and leaves the producer
\* reading the same connection with its reconnect counter untouched; a
\* step on a Ping, Pong or raw frame changes nothing at all.
C33_ParseErrorKeepsReading ==
    [][/\ FrameParseError =>
             /\ session'.pc = "read"
             /\ session'.reconnect_attempt = session.reconnect_attempt
             /\ session'.cancelled = session.cancelled
             /\ \/ session'.published = "Error"
                \/ /\ session' = session
                   /\ session.throttle.last_state = Some("Error")
             /\ session'.throttle.last_state = Some("Error")
             /\ state' = state
             /\ telemetry' = telemetry
             /\ UNCHANGED <<frame_trades, producer>>
       /\ FrameIgnored => UNCHANGED <<session, state, telemetry>>]_vars

\* A live stream got a payload that does not parse: Error is the status,
\* the throttle holds it, and the producer reads on with the trade before
\* it still in the state.
C33_Witness ==
    /\ session.pc = "read"
    /\ session.published = "Error"
    /\ session.throttle.last_reason = Some("failed to decode aggTrade payload")
    /\ session.reconnect_attempt = 0
    /\ IsSome(state.last_agg_id)

\* C36: over any sequence of apply_trade, apply_snapshot, history merge and
\* drain_frame, the open times of last_candle and of last_delta_candle never
\* decrease (and a candle once held is never dropped), and the candle and the
\* delta candle of a frame update never open before those of the frame
\* update emitted before it.
C36_OpenTimesNeverDecrease ==
    [][/\ IsSome(state.last_candle) =>
            /\ IsSome(state'.last_candle)
            /\ Unwrap(state'.last_candle).t >= Unwrap(state.last_candle).t
       /\ IsSome(state.last_delta_candle) =>
            /\ IsSome(state'.last_delta_candle)
            /\ Unwrap(state'.last_delta_candle).t
                   >= Unwrap(state.last_delta_candle).t
       /\ IsSome(emitted_t.candle) =>
            Unwrap(emitted_t'.candle) >= Unwrap(emitted_t.candle)
       /\ IsSome(emitted_t.delta_candle) =>
            Unwrap(emitted_t'.delta_candle) >= Unwrap(emitted_t.delta_candle)]_vars

\* A second frame update, after a history merge: it carries one trade of the
\* bucket 120000 after a frame update that carried a trade, too.
C36_Witness ==
    /\ op = "drain_frame"
    /\ IsSome(ret)
    /\ IsSome(Unwrap(ret).tick)
    /\ Unwrap(Unwrap(ret).tick).v = 1
    /\ emitted_total = 2
    /\ IsSome(Unwrap(ret).candle)
    /\ Unwrap(Unwrap(ret).candle).t = 120000
    /\ IsSome(Unwrap(ret).delta_candle)
    /\ Unwrap(Unwrap(ret).delta_candle).t = 120000
    /\ Len(bucket_trades) = 1
    /\ history = "done"

\* The gate right after a resync, on one step: while the id S that a snapshot
\* set is still the last id, a trade with id <= S is Stale, one with
\* id > S + 1 is GapDetected and sends the producer to a new resync, and the
\* trade with id S + 1 is the only one applied.
C39_GateStep ==
    (op' = "apply_trade" /\ nops' /= nops /\ IsSome(resynced.last_agg_id)) =>
        LET S == Unwrap(resynced.last_agg_id)
            id == Unwrap(arg').aggregate_trade_id
            kind == Unwrap(ret').kind
        IN /\ state.last_agg_id = Some(S)
           /\ id <= S => (kind = "Stale" /\ state' = state)
           /\ id > S + 1 =>
                (kind = "GapDetected" /\ state' = state /\ producer' = "resync")
           /\ id = S + 1 <=> kind = "Applied"

\* On one step: no trade whose id a resync skipped (the ids after the last
\* applied one up to the snapshot's id S) is applied.
C39_SkippedStep ==
    (op' = "apply_trade" /\ nops' /= nops /\ Unwrap(ret').kind = "Applied") =>
        Unwrap(arg').aggregate_trade_id \notin resynced.skipped

C39_GateAfterResync == [][C39_GateStep]_vars

\* C39: after a snapshot resync sets last_agg_id = S, every trade with
\* id <= S is Stale, a first trade with id > S + 1 is GapDetected again,
\* trades are applied again only from the id S + 1 on, and the trades with
\* ids between the gap and S are never applied.
C39_ResyncSkipsForGood == [][C39_GateStep /\ C39_SkippedStep]_vars

\* C40: the history merge changes no field of the state but last_candle,
\* last_delta_candle and last_price (last_agg_id, the pending tick, the
\* pending candles and pending_ingest_started_at stay), and when it replaces
\* last_candle, last_price becomes the close of the fetched candle, whatever
\* price a trade had set.
C40_HistoryMergeFrame ==
    [][(op' = "history_merge" /\ history' /= history) =>
          /\ state' = [state EXCEPT !.last_candle = state'.last_candle,
                                    !.last_delta_candle = state'.last_delta_candle,
                                    !.last_price = state'.last_price]
          /\ state'.last_candle /= state.last_candle =>
               /\ state'.last_candle =
                      Some(Unwrap(arg').candles[Len(Unwrap(arg').candles)])
               /\ state'.last_price = Some(Unwrap(state'.last_candle).c)]_vars

\* A merge that replaced the candle of a trade not yet drained: the trade's
\* price 100 gave way to the close 99 and the pending tick is still there.
C40_Witness ==
    /\ op = "history_merge"
    /\ state.last_agg_id = Some(0)
    /\ state.last_price = Some(99)
    /\ state.pending_price = Some(100)
    /\ IsSome(state.pending_ingest_started_at)
    /\ IsSome(state.pending_candle)
    /\ Unwrap(state.pending_candle).c = 100
    /\ IsSome(state.last_candle)
    /\ Unwrap(state.last_candle).c = 99
    /\ Unwrap(state.last_candle).t = 120000

\* The smoother does not move under the sample and the round trip of the
\* last probe.
C38_AtFixedPoint ==
    IsSome(arg) =>
        ClockSyncEwma_update(ewma, Unwrap(arg).sample_ms,
                             Unwrap(arg).rtt_ms).self = ewma

\* C38: under a constant sample s and a constant rtt, every further update
\* moves the value toward s, never past it and strictly nearer while it
\* moves; the value stops exactly when |s - value| * alpha < 1000, so the
\* fixed point need not be s: what is left is at most 3 ms when rtt <= 80,
\* 4 ms when rtt <= 180, 7 ms when rtt <= 350 and 11 ms otherwise; and the
\* value reaches its fixed point.
C38_ConvergesToFixedPoint ==
    /\ [][op' = "ClockSyncEwma_update_repeated" =>
            LET sample == Unwrap(arg).sample_ms
                rtt == Unwrap(arg).rtt_ms
                alpha == IF rtt <= 80 THEN 280 ELSE IF rtt <= 180 THEN 200
                         ELSE IF rtt <= 350 THEN 130 ELSE 90
                residual == IF rtt <= 80 THEN 3 ELSE IF rtt <= 180 THEN 4
                            ELSE IF rtt <= 350 THEN 7 ELSE 11
                value == ewma.value_ms
                next == ewma'.value_ms
            IN
            /\ sample >= value => (value <= next /\ next <= sample)
            /\ sample <= value => (sample <= next /\ next <= value)
            /\ next /= value => Abs(sample - next) < Abs(sample - value)
            /\ next = value <=> Abs(sample - value) * alpha < 1000
            /\ next = value => Abs(sample - value) <= residual
         ]_vars
    /\ <>[]C38_AtFixedPoint

\* Repeated updates with the sample 0 on the fastest tier brought the value
\* to rest 3 ms below the sample.
C38_Witness ==
    /\ op = "ClockSyncEwma_update_repeated"
    /\ Unwrap(arg) = [sample_ms |-> 0, rtt_ms |-> 80]
    /\ ewma = [initialized |-> TRUE, value_ms |-> -3]
    /\ C38_AtFixedPoint

=============================================================================
